---- MODULE Spec2Model ----
(***************************************************************************)
(* A model of the analytics derivations of fpl-analytics-pro: the loaders  *)
(* (price, value score), the strength-based granular fixture difficulty,   *)
(* the rolling per-team difficulty timeline and the team rollup.           *)
(*                                                                         *)
(* pandas columns of floats are modelled as exact rationals [n, d] in      *)
(* lowest terms (d > 0), so that equal values are equal states; binary     *)
(* floating-point rounding is below the model's resolution.                *)
(***************************************************************************)
EXTENDS Integers, Sequences, FiniteSets, TLC

VARIABLES
    pc,          \* which step of a page run the program is at
    teams,       \* bootstrap_data['teams'] as a DataFrame: a sequence of rows
    elements,    \* bootstrap_data['elements']: the raw player rows
    element_types,\* bootstrap_data['element_types']: the position rows
    raw_fixtures,\* fixtures_data: the raw fixture rows
    players,     \* the players DataFrame a loader returned
    fixtures,    \* the fixtures DataFrame a loader returned
    team_stats,  \* the DataFrame calculate_team_stats returned
    timeline,    \* the DataFrame the last timeline computation returned
    request,     \* the arguments of the last timeline computation
    fpl_data,    \* the FPLData object of multipage_app
    teams_frame, \* the teams DataFrame a loader returned
    view         \* what the last page computation (filter, table) produced

vars == <<pc, teams, elements, element_types, raw_fixtures, players, fixtures, team_stats,
          timeline, request, fpl_data, teams_frame, view>>

----------------------------------------------------------------------------
(* Exact arithmetic on rationals.                                          *)

Abs(x) == IF x < 0 THEN 0 - x ELSE x

RECURSIVE Gcd(_, _)
Gcd(a, b) == IF b = 0 THEN a ELSE Gcd(b, a % b)

\* n / d in lowest terms, d # 0
Rat(n, d) ==
    LET g == Gcd(Abs(n), Abs(d))
        s == IF d < 0 THEN 0 - 1 ELSE 1
    IN  [n |-> (s * n) \div g, d |-> (s * d) \div g]

Int2Rat(i) == [n |-> i, d |-> 1]

RatAdd(x, y) == Rat(x.n * y.d + y.n * x.d, x.d * y.d)
RatSub(x, y) == Rat(x.n * y.d - y.n * x.d, x.d * y.d)
RatMul(x, y) == Rat(x.n * y.n, x.d * y.d)
\* y # 0
RatDiv(x, y) == Rat(x.n * y.d, x.d * y.n)
RatLt(x, y)  == x.n * y.d < y.n * x.d
RatLe(x, y)  == x.n * y.d <= y.n * x.d
RatEq(x, y)  == x.n * y.d = y.n * x.d

\* Python's builtin min(a, b) and max(a, b): the first argument unless the
\* second is strictly smaller (larger)
PyMin(a, b) == IF RatLt(b, a) THEN b ELSE a
PyMax(a, b) == IF RatLt(a, b) THEN b ELSE a

RECURSIVE SumRat(_)
SumRat(s) == IF s = <<>> THEN Int2Rat(0) ELSE RatAdd(Head(s), SumRat(Tail(s)))

----------------------------------------------------------------------------
(* DataFrame helpers.                                                      *)

\* a missing team id of a fixture row (what pd.isna answers True for)
NaN == 0

\* what Series.map(lookup) leaves for a key the lookup lacks
NaNName == "nan"

\* the indices i of df with Test(df[i]), ascending
RowsWhere(df, Test(_)) == {i \in DOMAIN df : Test(df[i])}

\* dict(zip(teams['id'], teams['name'])) applied by Series.map: a later row
\* with the same id overwrites an earlier one
TeamLookup(teams_df, id) ==
    LET hits == {i \in DOMAIN teams_df : teams_df[i].id = id}
    IN  IF hits = {} THEN NaNName
        ELSE teams_df[CHOOSE i \in hits : \A j \in hits : j <= i].name

----------------------------------------------------------------------------
(* Strength-based difficulty model.                                        *)

\* a faulty variant: the neutral value taken as the bottom of the scale
NeutralDifficultyZero == Rat(0, 1)
\* the value returned for a fixture whose teams cannot be resolved
NeutralDifficulty == Rat(5, 1)

\* a faulty variant: the subject's own ratings read in place of the opponent's
OwnRatings(team_h, team_a, venue) ==
    IF venue = "home"
    THEN [attack |-> team_h.strength_attack_home,
          defence |-> team_h.strength_defence_home]
    ELSE [attack |-> team_a.strength_attack_away,
          defence |-> team_a.strength_defence_away]
\* opponent_attack and opponent_defence for the venue
OpponentRatings(team_h, team_a, venue) ==
    IF venue = "home"
    THEN [attack |-> team_a.strength_attack_away,
          defence |-> team_a.strength_defence_away]
    ELSE [attack |-> team_h.strength_attack_home,
          defence |-> team_h.strength_defence_home]

\* a faulty variant: the scale turned around, a weaker opponent scoring higher
ScaleStrengthInverted(strength) ==
    RatAdd(RatMul(RatDiv(Int2Rat(1000 - strength), Int2Rat(400)), Int2Rat(5)),
           Rat(5, 2))
\* (strength - 1000) / 400 * 5 + 2.5
ScaleStrength(strength) ==
    RatAdd(RatMul(RatDiv(Int2Rat(strength - 1000), Int2Rat(400)), Int2Rat(5)),
           Rat(5, 2))

\* a faulty variant: the clamp left out
NoClamp(x) == x
\* max(0, min(10, x))
Clamp0To10(x) == PyMax(Int2Rat(0), PyMin(Int2Rat(10), x))

get_custom_difficulty(teams_df, team_h_id, team_a_id, venue) ==
    IF team_h_id = NaN \/ team_a_id = NaN THEN NeutralDifficulty
    ELSE
    LET hs == RowsWhere(teams_df, LAMBDA t : t.id = team_h_id)
        as == RowsWhere(teams_df, LAMBDA t : t.id = team_a_id)
    IN  IF hs = {} \/ as = {} THEN NeutralDifficulty
        ELSE
        LET team_h == teams_df[CHOOSE i \in hs : \A j \in hs : i <= j]
            team_a == teams_df[CHOOSE i \in as : \A j \in as : i <= j]
            opponent == OpponentRatings(team_h, team_a, venue)
            attack_difficulty == ScaleStrength(opponent.defence)
            defence_difficulty == ScaleStrength(opponent.attack)
            overall_difficulty ==
                RatDiv(RatAdd(attack_difficulty, defence_difficulty), Int2Rat(2))
        IN  Clamp0To10(overall_difficulty)

\* a faulty variant: a score is added to the one the column already holds
calculate_granular_difficulty_accumulate(fixtures_df, teams_df) ==
    [i \in DOMAIN fixtures_df |->
        LET row == fixtures_df[i]
            home == get_custom_difficulty(teams_df, row.team_h, row.team_a, "home")
            away == get_custom_difficulty(teams_df, row.team_h, row.team_a, "away")
        IN  [home_difficulty_granular |->
                 IF "home_difficulty_granular" \in DOMAIN row
                 THEN RatAdd(row.home_difficulty_granular, home) ELSE home,
             away_difficulty_granular |->
                 IF "away_difficulty_granular" \in DOMAIN row
                 THEN RatAdd(row.away_difficulty_granular, away) ELSE away]
            @@ row]
\* fixtures_df with the two granular columns written
calculate_granular_difficulty(fixtures_df, teams_df) ==
    [i \in DOMAIN fixtures_df |->
        [home_difficulty_granular |->
            get_custom_difficulty(teams_df, fixtures_df[i].team_h,
                                  fixtures_df[i].team_a, "home"),
         away_difficulty_granular |->
            get_custom_difficulty(teams_df, fixtures_df[i].team_h,
                                  fixtures_df[i].team_a, "away")]
        @@ fixtures_df[i]]

\* calculate_granular_difficulty of check_granular_data.py: its
\* overall_difficulty for teams the table holds
check_granular_difficulty(teams_df, team_h_id, team_a_id, venue) ==
    LET hs == RowsWhere(teams_df, LAMBDA t : t.id = team_h_id)
        as == RowsWhere(teams_df, LAMBDA t : t.id = team_a_id)
        team_h == teams_df[CHOOSE i \in hs : \A j \in hs : i <= j]
        team_a == teams_df[CHOOSE i \in as : \A j \in as : i <= j]
        \* (6 - strength) / 5 * 10
        Attacking(strength) ==
            RatMul(RatDiv(Int2Rat(6 - strength), Int2Rat(5)), Int2Rat(10))
        \* strength / 5 * 10
        Defensive(strength) ==
            RatMul(RatDiv(Int2Rat(strength), Int2Rat(5)), Int2Rat(10))
        attacking_difficulty ==
            IF venue = "home" THEN Attacking(team_a.strength_defence_home)
            ELSE Attacking(team_h.strength_defence_away)
        defensive_difficulty ==
            IF venue = "home" THEN Defensive(team_a.strength_attack_away)
            ELSE Defensive(team_h.strength_attack_home)
    IN  RatDiv(RatAdd(attacking_difficulty, defensive_difficulty), Int2Rat(2))

\* the sample loop of explore_detailed_fixture_data over fixtures_data[:3]:
\* a fixture with a missing team id is skipped; a team id the table lacks
\* makes .iloc[0] raise, which ends the loop
RECURSIVE SampleDifficulties(_, _, _)
SampleDifficulties(fixtures_data, teams_df, k) ==
    IF k > Len(fixtures_data) \/ k > 3 THEN [raised |-> FALSE, rows |-> <<>>]
    ELSE LET fixture == fixtures_data[k]
             rest == SampleDifficulties(fixtures_data, teams_df, k + 1)
         IN  IF fixture.team_h = NaN \/ fixture.team_a = NaN THEN rest
             ELSE IF \/ RowsWhere(teams_df, LAMBDA t : t.id = fixture.team_h) = {}
                     \/ RowsWhere(teams_df, LAMBDA t : t.id = fixture.team_a) = {}
             THEN [raised |-> TRUE, rows |-> <<>>]
             ELSE [raised |-> rest.raised,
                   rows |->
                       <<[team_h |-> fixture.team_h, team_a |-> fixture.team_a,
                          home |-> check_granular_difficulty(
                                       teams_df, fixture.team_h, fixture.team_a,
                                       "home"),
                          away |-> check_granular_difficulty(
                                       teams_df, fixture.team_h, fixture.team_a,
                                       "away")]>> \o rest.rows]

----------------------------------------------------------------------------
(* Player metrics.                                                         *)

\* a faulty variant: an id the lookup lacks is given the last position's name
PositionLookupDefault(positions_df, id) ==
    LET hits == {i \in DOMAIN positions_df : positions_df[i].id = id}
    IN  IF hits = {} THEN positions_df[Len(positions_df)].singular_name
        ELSE positions_df[CHOOSE i \in hits : \A j \in hits : j <= i].singular_name
\* dict(zip(positions['id'], positions['singular_name'])) applied by map
PositionLookup(positions_df, id) ==
    LET hits == {i \in DOMAIN positions_df : positions_df[i].id = id}
    IN  IF hits = {} THEN NaNName
        ELSE positions_df[CHOOSE i \in hits : \A j \in hits : j <= i].singular_name

\* pd.to_numeric(raw, errors='coerce').fillna(0) on the strings the provider
\* sends: a decimal string parses, anything else becomes NaN and then 0
ToNumericFillna0(raw) ==
    CASE raw = "0.0"  -> Rat(0, 1)
      [] raw = "2.5"  -> Rat(5, 2)
      [] raw = "12.5" -> Rat(25, 2)
      [] OTHER        -> Rat(0, 1)

\* a faulty variant: the cost divided by 100
PriceCents(now_cost) == Rat(now_cost, 100)
\* players['now_cost'] / 10
Price(now_cost) == Rat(now_cost, 10)

\* a faulty variant: every value below 1 raised to 1
ReplaceFloor(x) == IF RatLt(x, Int2Rat(1)) THEN Int2Rat(1) ELSE x
\* Series.replace(0, 1): only a value equal to 0 is replaced
Replace0By1(x) == IF RatEq(x, Int2Rat(0)) THEN Int2Rat(1) ELSE x

\* a faulty variant: the points divided by the price in whole units, rounded down
ValueWholePrice(total_points, price) ==
    RatDiv(Int2Rat(total_points),
           Replace0By1(Int2Rat(price.n \div price.d)))
\* players['total_points'] / players['Price'].replace(0, 1)
Value(total_points, price) == RatDiv(Int2Rat(total_points), Replace0By1(price))

\* one row of the players DataFrame load_fpl_data builds
DashboardPlayer(e, teams_df, positions_df) ==
    [id |-> e.id, team |-> e.team, element_type |-> e.element_type,
     now_cost |-> e.now_cost, total_points |-> e.total_points,
     goals_scored |-> e.goals_scored, assists |-> e.assists,
     clean_sheets |-> e.clean_sheets, minutes |-> e.minutes,
     Team |-> TeamLookup(teams_df, e.team),
     Position |-> PositionLookup(positions_df, e.element_type),
     Price |-> Price(e.now_cost),
     Player |-> e.web_name,
     Value |-> Value(e.total_points, Price(e.now_cost)),
     Ownership |-> ToNumericFillna0(e.selected_by_percent),
     Form |-> ToNumericFillna0(e.form)]

DashboardPlayers(elems, teams_df, positions_df) ==
    [i \in DOMAIN elems |-> DashboardPlayer(elems[i], teams_df, positions_df)]

----------------------------------------------------------------------------
(* Team rollup.                                                            *)

\* the column named by Get over the rows, as a sequence
Column(df, Get(_)) == [i \in DOMAIN df |-> Get(df[i])]

\* Series.mean() of a non-empty column of rationals
MeanRat(col) == RatDiv(SumRat(col), Int2Rat(Len(col)))

\* Series.max() of a non-empty column of rationals
MaxRat(col) ==
    col[CHOOSE i \in DOMAIN col : \A j \in DOMAIN col : RatLe(col[j], col[i])]

\* a faulty variant: the last row holding the maximum
IdxMaxLast(col) ==
    CHOOSE i \in DOMAIN col :
        /\ \A j \in DOMAIN col : RatLe(col[j], col[i])
        /\ \A j \in DOMAIN col : RatEq(col[j], col[i]) => j <= i
\* Series.idxmax(): the first row holding the maximum
IdxMax(col) ==
    CHOOSE i \in DOMAIN col :
        /\ \A j \in DOMAIN col : RatLe(col[j], col[i])
        /\ \A j \in DOMAIN col : RatEq(col[j], col[i]) => i <= j

IntCol(df, Get(_)) == [i \in DOMAIN df |-> Int2Rat(Get(df[i]))]

PositionNames == <<"Goalkeeper", "Defender", "Midfielder", "Forward">>

\* the stats record of one team over team_players (non-empty)
TeamRecord(team, team_players) ==
    LET pts == IntCol(team_players, LAMBDA p : p.total_points)
        prc == Column(team_players, LAMBDA p : p.Price)
        PosPlayers(pos) == SelectSeq(team_players, LAMBDA p : p.Position = pos)
    IN  [team_id |-> team.id,
         team_name |-> team.name,
         total_players |-> Len(team_players),
         total_points |-> SumRat(pts),
         avg_points_per_player |-> MeanRat(pts),
         total_goals |-> SumRat(IntCol(team_players, LAMBDA p : p.goals_scored)),
         total_assists |-> SumRat(IntCol(team_players, LAMBDA p : p.assists)),
         total_clean_sheets |->
             SumRat(IntCol(team_players, LAMBDA p : p.clean_sheets)),
         total_value |-> SumRat(prc),
         avg_ownership |-> MeanRat(Column(team_players, LAMBDA p : p.Ownership)),
         avg_form |-> MeanRat(Column(team_players, LAMBDA p : p.Form)),
         total_minutes |-> SumRat(IntCol(team_players, LAMBDA p : p.minutes)),
         strength_overall_home |-> team.strength_overall_home,
         strength_overall_away |-> team.strength_overall_away,
         strength_attack_home |-> team.strength_attack_home,
         strength_attack_away |-> team.strength_attack_away,
         strength_defence_home |-> team.strength_defence_home,
         strength_defence_away |-> team.strength_defence_away,
         top_scorer |-> team_players[IdxMax(pts)].Player,
         top_scorer_points |-> MaxRat(pts),
         most_expensive |-> team_players[IdxMax(prc)].Player,
         most_expensive_price |-> MaxRat(prc),
         position_count |->
             [k \in DOMAIN PositionNames |-> Len(PosPlayers(PositionNames[k]))],
         position_avg_points |->
             [k \in DOMAIN PositionNames |->
                 IF PosPlayers(PositionNames[k]) = <<>> THEN Int2Rat(0)
                 ELSE MeanRat(IntCol(PosPlayers(PositionNames[k]),
                                     LAMBDA p : p.total_points))]]

\* a faulty variant: no filter by team
TeamPlayersAll(players_df, team) == players_df
\* players_df[players_df['team'] == team['id']]
TeamPlayers(players_df, team) ==
    SelectSeq(players_df, LAMBDA p : p.team = team.id)

RECURSIVE TeamStatsFrom(_, _, _)
TeamStatsFrom(players_df, teams_df, k) ==
    IF k > Len(teams_df) THEN <<>>
    ELSE LET team_players == TeamPlayers(players_df, teams_df[k])
             rest == TeamStatsFrom(players_df, teams_df, k + 1)
         IN  IF team_players = <<>> THEN rest
             ELSE <<TeamRecord(teams_df[k], team_players)>> \o rest

\* a faulty variant: break in place of continue: the loop ends at the first
\* team without players
RECURSIVE TeamStatsUntilEmpty(_, _, _)
TeamStatsUntilEmpty(players_df, teams_df, k) ==
    IF k > Len(teams_df) THEN <<>>
    ELSE LET team_players == TeamPlayers(players_df, teams_df[k])
         IN  IF team_players = <<>> THEN <<>>
             ELSE <<TeamRecord(teams_df[k], team_players)>>
                      \o TeamStatsUntilEmpty(players_df, teams_df, k + 1)

calculate_team_stats_break(players_df, teams_df, fixtures_df) ==
    TeamStatsUntilEmpty(players_df, teams_df, 1)
calculate_team_stats(players_df, teams_df, fixtures_df) ==
    TeamStatsFrom(players_df, teams_df, 1)

----------------------------------------------------------------------------
(* Rolling difficulty timeline.                                            *)

\* DataFrame.sort_values('event') on rows whose event is a number: insertion
\* of each row after the rows whose event is not larger
RECURSIVE InsertByEvent(_, _)
InsertByEvent(sorted, row) ==
    IF sorted = <<>> THEN <<row>>
    ELSE IF row.event < Head(sorted).event THEN <<row>> \o sorted
         ELSE <<Head(sorted)>> \o InsertByEvent(Tail(sorted), row)

RECURSIVE SortFrom(_, _)
SortFrom(df, k) ==
    IF k = 0 THEN <<>> ELSE InsertByEvent(SortFrom(df, k - 1), df[k])

\* a faulty variant: the sort left out
SortByEventUnsorted(df) == df
SortByEvent(df) == SortFrom(df, Len(df))

\* the running sum pandas keeps for rolling(window).mean(): every value is
\* added as the window reaches it and subtracted as the window leaves it
RECURSIVE RollSum(_, _, _)
RollSum(xs, window, i) ==
    IF i = 0 THEN Int2Rat(0)
    ELSE LET added == RatAdd(RollSum(xs, window, i - 1), xs[i])
         IN  IF i > window THEN RatSub(added, xs[i - window]) ELSE added

\* the number of observations in the window ending at i
RollObs(window, i) == IF i > window THEN window ELSE i

\* a faulty variant: rolling(...).sum(), the sum of the window not divided
RollingSum(xs, window) == [i \in DOMAIN xs |-> RollSum(xs, window, i)]
\* a faulty variant: the window ignored: the mean of everything so far
RollingMeanExpanding(xs, window) ==
    [i \in DOMAIN xs |-> RatDiv(RollSum(xs, Len(xs), i), Int2Rat(i))]
\* Series.rolling(window=window, min_periods=1).mean(), window >= 1
RollingMean(xs, window) ==
    [i \in DOMAIN xs |->
        RatDiv(RollSum(xs, window, i), Int2Rat(RollObs(window, i)))]

\* a faulty variant: the away fixtures left out
TeamFixturesHomeOnly(fixtures_df, team_id) ==
    SelectSeq(fixtures_df, LAMBDA f : f.team_h = team_id)
\* fixtures_df[(team_h == team_id) | (team_a == team_id)]
TeamFixtures(fixtures_df, team_id) ==
    SelectSeq(fixtures_df, LAMBDA f : f.team_h = team_id \/ f.team_a = team_id)

Venue(f, team_id) == IF f.team_h = team_id THEN "Home" ELSE "Away"
Opponent(f, team_id) == IF f.team_h = team_id THEN f.team_a_name ELSE f.team_h_name

\* the provider's difficulty of fixture f for team_id's side
ProviderDifficulty(f, team_id) ==
    IF f.team_h = team_id THEN f.team_h_difficulty ELSE f.team_a_difficulty

\* the granular difficulty of fixture f for team_id's side
GranularDifficulty(f, team_id) ==
    IF f.team_h = team_id THEN f.home_difficulty_granular
    ELSE f.away_difficulty_granular

Raised == [raised |-> TRUE, rows |-> <<>>]
Returned(rows) == [raised |-> FALSE, rows |-> rows]

\* the columns calculate_fixture_difficulty returns, over the team's sorted
\* fixtures
ProviderTimeline(team_fixtures, team_id, window) ==
    LET difficulty == [i \in DOMAIN team_fixtures |->
                          Int2Rat(ProviderDifficulty(team_fixtures[i], team_id))]
        rolling == RollingMean(difficulty, window)
    IN  [i \in DOMAIN team_fixtures |->
            [index |-> team_fixtures[i].index,
             event |-> team_fixtures[i].event,
             difficulty |-> difficulty[i],
             rolling_difficulty |-> rolling[i],
             venue |-> Venue(team_fixtures[i], team_id),
             opponent |-> Opponent(team_fixtures[i], team_id),
             kickoff_time |-> team_fixtures[i].kickoff_time]]

\* a faulty variant: min_periods=window and the rows without a full window dropped
calculate_fixture_difficulty_full_windows(fixtures_df, team_id, window) ==
    IF fixtures_df = <<>> THEN Returned(<<>>)
    ELSE
    LET team_fixtures == SortByEvent(TeamFixtures(fixtures_df, team_id))
        rows == ProviderTimeline(team_fixtures, team_id, window)
    IN  IF team_fixtures = <<>> THEN Returned(<<>>)
        ELSE IF window < 1 THEN Raised
        ELSE IF window > Len(rows) THEN Returned(<<>>)
        ELSE Returned(SubSeq(rows, window, Len(rows)))

\* calculate_fixture_difficulty of complete_streamlit_app
calculate_fixture_difficulty(fixtures_df, team_id, window) ==
    IF fixtures_df = <<>> THEN Returned(<<>>)
    ELSE
    LET team_fixtures == SortByEvent(TeamFixtures(fixtures_df, team_id))
    IN  IF team_fixtures = <<>> THEN Returned(<<>>)
        ELSE IF window < 1 THEN Raised
        ELSE Returned(ProviderTimeline(team_fixtures, team_id, window))

\* the team_fixtures frame single_team_analysis of enhanced_dashboard builds
single_team_analysis(fixtures_df, team_id, window) ==
    LET team_fixtures == SortByEvent(TeamFixtures(fixtures_df, team_id))
        difficulty == [i \in DOMAIN team_fixtures |->
                          GranularDifficulty(team_fixtures[i], team_id)]
        rolling == RollingMean(difficulty, window)
    IN  IF team_fixtures = <<>> THEN Returned(<<>>)
        ELSE IF window < 1 THEN Raised
        ELSE Returned([i \in DOMAIN team_fixtures |->
                 [index |-> team_fixtures[i].index,
                  event |-> team_fixtures[i].event,
                  difficulty |-> difficulty[i],
                  rolling_difficulty |-> rolling[i],
                  venue |-> Venue(team_fixtures[i], team_id),
                  opponent |-> Opponent(team_fixtures[i], team_id),
                  kickoff_time |-> team_fixtures[i].kickoff_time]])

\* FPLData.calculate_fixture_difficulty of multipage_app, over the frame
\* get_fixtures_df returned. There is no emptiness check: a frame without
\* columns raises KeyError at fixtures['team_h'], and rolling() raises
\* ValueError for a window below min_periods = 1. For a team without fixtures
\* apply(axis=1) over the empty selection returns an empty column (pandas
\* 2), and the result is an empty frame.
fpldata_calculate_fixture_difficulty(fixtures_df, team_id, window) ==
    LET team_fixtures == SortByEvent(TeamFixtures(fixtures_df, team_id))
        difficulty == [i \in DOMAIN team_fixtures |->
                          ProviderDifficulty(team_fixtures[i], team_id)]
        rolling == RollingMean([i \in DOMAIN difficulty |->
                                   Int2Rat(difficulty[i])], window)
    IN  IF fixtures_df = <<>> \/ window < 1 THEN Raised
        ELSE Returned([i \in DOMAIN team_fixtures |->
                 [index |-> team_fixtures[i].index,
                  event |-> team_fixtures[i].event,
                  difficulty |-> Int2Rat(difficulty[i]),
                  rolling_difficulty |-> rolling[i],
                  team_h_name |-> team_fixtures[i].team_h_name,
                  team_a_name |-> team_fixtures[i].team_a_name]])

\* what a build can make of FPLData.calculate_fixture_difficulty: before
\* pandas 2, apply(axis=1) over an empty selection returns an empty frame,
\* whose assignment to the single column 'difficulty' raises ValueError
fpldata_timeline_outcomes(fixtures_df, team_id, window) ==
    {fpldata_calculate_fixture_difficulty(fixtures_df, team_id, window)}
        \cup (IF TeamFixtures(fixtures_df, team_id) = <<>> THEN {Raised} ELSE {})

----------------------------------------------------------------------------
(* Loaders.                                                                *)

\* pd.DataFrame(fixtures_data) with team_h_name / team_a_name mapped
NamedFixtures(raw, teams_df) ==
    [i \in DOMAIN raw |->
        [index |-> i, event |-> raw[i].event,
         team_h |-> raw[i].team_h, team_a |-> raw[i].team_a,
         team_h_difficulty |-> raw[i].team_h_difficulty,
         team_a_difficulty |-> raw[i].team_a_difficulty,
         kickoff_time |-> raw[i].kickoff_time,
         team_h_name |-> TeamLookup(teams_df, raw[i].team_h),
         team_a_name |-> TeamLookup(teams_df, raw[i].team_a)]]

\* pd.DataFrame(root)[col] succeeds: some row of the root carries the column
Readable(root, col) == \E i \in DOMAIN root : col \in DOMAIN root[i]

\* a root collection without rows, or whose rows lack the columns, has no
\* such column: the first access raises KeyError, which load_fpl_data's
\* except clause turns into empty frames
RootsUsable(elems, teams_df, positions_df, raw) ==
    /\ Readable(elems, "team")
    /\ Readable(teams_df, "id")
    /\ Readable(positions_df, "id")
    /\ Readable(raw, "team_h")

EmptyLoad == [players |-> <<>>, fixtures |-> <<>>, teams |-> <<>>, team_stats |-> <<>>]

\* a faulty variant: the except clause returns the frames built before the
\* failure
dashboard_load_fpl_data_partial(elems, teams_df, positions_df, raw) ==
    IF ~(Readable(elems, "team") /\ Readable(teams_df, "id")
             /\ Readable(positions_df, "id"))
    THEN EmptyLoad
    ELSE LET ps == DashboardPlayers(elems, teams_df, positions_df)
         IN  IF ~Readable(raw, "team_h")
             THEN [players |-> ps, fixtures |-> <<>>, teams |-> teams_df,
                   team_stats |-> <<>>]
             ELSE LET fx == calculate_granular_difficulty(
                                NamedFixtures(raw, teams_df), teams_df)
                  IN  [players |-> ps, fixtures |-> fx, teams |-> teams_df,
                       team_stats |-> calculate_team_stats(ps, teams_df, fx)]
\* load_fpl_data of enhanced_dashboard
dashboard_load_fpl_data(elems, teams_df, positions_df, raw) ==
    IF ~RootsUsable(elems, teams_df, positions_df, raw) THEN EmptyLoad
    ELSE LET ps == DashboardPlayers(elems, teams_df, positions_df)
             fx == calculate_granular_difficulty(NamedFixtures(raw, teams_df),
                                                 teams_df)
         IN  [players |-> ps, fixtures |-> fx, teams |-> teams_df,
              team_stats |-> calculate_team_stats(ps, teams_df, fx)]

\* load_fpl_data of complete_streamlit_app: the same player columns, the
\* fixtures with names only, no team stats
complete_load_fpl_data(elems, teams_df, positions_df, raw) ==
    IF ~RootsUsable(elems, teams_df, positions_df, raw) THEN EmptyLoad
    ELSE [players |-> DashboardPlayers(elems, teams_df, positions_df),
          fixtures |-> NamedFixtures(raw, teams_df),
          teams |-> teams_df,
          team_stats |-> <<>>]

\* get_fpl_data of fixed_streamlit_app: the player columns of load_fpl_data
fixed_get_fpl_data(elems, teams_df, positions_df) ==
    IF elems = <<>> \/ teams_df = <<>> \/ positions_df = <<>> THEN <<>>
    ELSE DashboardPlayers(elems, teams_df, positions_df)

\* FPLData.get_fixtures_df of multipage_app
get_fixtures_df(raw, teams_df) ==
    IF raw = <<>> THEN <<>> ELSE NamedFixtures(raw, teams_df)

\* FPLData.get_players_df of multipage_app
get_players_df(elems, teams_df, positions_df) ==
    [i \in DOMAIN elems |->
        [id |-> elems[i].id, team |-> elems[i].team,
         element_type |-> elems[i].element_type,
         now_cost |-> elems[i].now_cost,
         total_points |-> elems[i].total_points,
         team_name |-> TeamLookup(teams_df, elems[i].team),
         position |-> PositionLookup(positions_df, elems[i].element_type),
         price |-> Price(elems[i].now_cost)]]

NoTimeline == Returned(<<>>)
NoRequest == [fn |-> "none", team_id |-> 0, window |-> 0]
NoView == [fn |-> "none", args |-> <<>>, raised |-> FALSE, rows |-> <<>>]

----------------------------------------------------------------------------
(* The FPLData object of multipage_app.                                    *)

\* None; a fetched document carries the number of the load_data call that
\* fetched it
NoData == [load |-> 0]

\* the fields __init__ sets before it calls load_data
fpldata_init == [bootstrap_data |-> NoData, fixtures_data |-> NoData, loads |-> 0]

\* what the two requests of load number n return when they succeed
BootstrapJson(n) ==
    [load |-> n, elements |-> elements, teams |-> teams,
     element_types |-> element_types]
FixturesJson(n) == [load |-> n, rows |-> raw_fixtures]

\* a faulty variant of what load_data does: both documents fetched into
\* locals and assigned together, after both requests succeeded
fpldata_load_data_together(self, boot_ok, fix_ok) ==
    LET n == self.loads + 1
    IN  IF boot_ok /\ fix_ok
        THEN [bootstrap_data |-> BootstrapJson(n),
              fixtures_data |-> FixturesJson(n), loads |-> n]
        ELSE [self EXCEPT !.loads = n]
\* FPLData.load_data: each field is assigned as soon as its request has
\* succeeded; a failure raises into the except clause, which only prints
fpldata_load_data(self, boot_ok, fix_ok) ==
    LET n == self.loads + 1
    IN  IF ~boot_ok THEN [self EXCEPT !.loads = n]
        ELSE IF ~fix_ok
        THEN [self EXCEPT !.bootstrap_data = BootstrapJson(n), !.loads = n]
        ELSE [bootstrap_data |-> BootstrapJson(n),
              fixtures_data |-> FixturesJson(n), loads |-> n]

\* the object after a construction whose two requests succeeded
Constructed == fpldata_load_data(fpldata_init, TRUE, TRUE)

\* FPLData.get_players_df on the object
fpldata_get_players_df(self) ==
    IF self.bootstrap_data = NoData THEN <<>>
    ELSE get_players_df(self.bootstrap_data.elements, self.bootstrap_data.teams,
                        self.bootstrap_data.element_types)

\* FPLData.get_fixtures_df on the object
fpldata_get_fixtures_df(self) ==
    IF self.fixtures_data = NoData THEN <<>>
    ELSE get_fixtures_df(self.fixtures_data.rows, self.bootstrap_data.teams)

\* a faulty variant: the away side's name compared
VenueByNameAway(f, team_name) ==
    IF f.team_a_name = team_name THEN "Home" ELSE "Away"
\* 'Home' if row['team_h_name'] == team_name else 'Away'
VenueByName(f, team_name) ==
    IF f.team_h_name = team_name THEN "Home" ELSE "Away"
\* row['team_a_name'] if row['team_h_name'] == team_name else row['team_h_name']
OpponentByName(f, team_name) ==
    IF f.team_h_name = team_name THEN f.team_a_name ELSE f.team_h_name

\* the rows of the fixtures table: difficulty_data.head(10)
TableHead == 10

\* update_fixtures_page of multipage_app after its call of
\* calculate_fixture_difficulty returned difficulty_data (or raised): the
\* table_data it returns. The selected team's name is read with .iloc[0],
\* which raises IndexError for an id the team table lacks.
update_fixtures_page(difficulty_data, teams_df, team_id) ==
    IF difficulty_data.raised THEN Raised
    ELSE IF difficulty_data.rows = <<>> THEN Returned(<<>>)
    ELSE
    LET hits == RowsWhere(teams_df, LAMBDA t : t.id = team_id)
        team_name == teams_df[CHOOSE i \in hits : \A j \in hits : i <= j].name
        upcoming_fixtures ==
            SubSeq(difficulty_data.rows, 1,
                   IF Len(difficulty_data.rows) < TableHead
                   THEN Len(difficulty_data.rows) ELSE TableHead)
    IN  IF hits = {} THEN Raised
        ELSE Returned([k \in DOMAIN upcoming_fixtures |->
                 [event |-> upcoming_fixtures[k].event,
                  opponent |-> OpponentByName(upcoming_fixtures[k], team_name),
                  venue |-> VenueByName(upcoming_fixtures[k], team_name),
                  difficulty |-> upcoming_fixtures[k].difficulty]])

----------------------------------------------------------------------------
(* The player filters of the players pages.                                *)

\* Series.isin(positions)
InPositions(p, positions) == p.Position \in positions

\* a faulty variant: the upper bound of the price range exclusive
PriceInRangeOpen(p, price_min, price_max) ==
    RatLe(price_min, p.Price) /\ RatLt(p.Price, price_max)
\* (Price >= price_min) & (Price <= price_max)
PriceInRange(p, price_min, price_max) ==
    RatLe(price_min, p.Price) /\ RatLe(p.Price, price_max)

\* total_points >= min_points
HasMinPoints(p, min_points) == p.total_points >= min_points

\* Ownership >= min_ownership
HasMinOwnership(p, min_ownership) == RatLe(min_ownership, p.Ownership)

\* a faulty variant: isin(teams) applied also to an empty selection
TeamFilterAlways(df, selected) == SelectSeq(df, LAMBDA p : p.Team \in selected)
\* if teams: filtered_df = filtered_df[filtered_df['Team'].isin(teams)]
TeamFilter(df, selected) ==
    IF selected = {} THEN df ELSE SelectSeq(df, LAMBDA p : p.Team \in selected)

\* a faulty variant: the first selected row taken for a header and dropped
complete_players_filter_skip_first(players_df, a) ==
    LET kept == TeamFilter(
                    SelectSeq(players_df, LAMBDA p :
                        /\ InPositions(p, a.positions)
                        /\ PriceInRange(p, a.price_min, a.price_max)
                        /\ HasMinPoints(p, a.min_points)
                        /\ HasMinOwnership(p, a.min_ownership)),
                    a.teams)
    IN  IF kept = <<>> THEN kept ELSE Tail(kept)
\* the "Apply filters" step of players_page of complete_streamlit_app and of
\* main of fixed_streamlit_app
complete_players_filter(players_df, a) ==
    TeamFilter(
        SelectSeq(players_df, LAMBDA p :
            /\ InPositions(p, a.positions)
            /\ PriceInRange(p, a.price_min, a.price_max)
            /\ HasMinPoints(p, a.min_points)
            /\ HasMinOwnership(p, a.min_ownership)),
        a.teams)

\* the "Apply filters" step of players_page of enhanced_dashboard, which has
\* no ownership input
dashboard_players_filter(players_df, a) ==
    TeamFilter(
        SelectSeq(players_df, LAMBDA p :
            /\ InPositions(p, a.positions)
            /\ PriceInRange(p, a.price_min, a.price_max)
            /\ HasMinPoints(p, a.min_points)),
        a.teams)

\* float division as pandas does it: x / 0 is inf (nan for 0 / 0), recorded
\* with denominator 0
FloatDiv(x, y) ==
    IF y.n # 0 THEN RatDiv(x, y)
    ELSE [n |-> IF x.n > 0 THEN 1 ELSE IF x.n < 0 THEN 0 - 1 ELSE 0, d |-> 0]

\* load_fpl_data of streamlit_app: names, price and value score added, the
\* unavailable players dropped; selected_by_percent stays as the provider
\* sent it
streamlit_load_fpl_data(elems, teams_df, positions_df) ==
    IF ~(Readable(elems, "team") /\ Readable(teams_df, "id")
             /\ Readable(positions_df, "id"))
    THEN <<>>
    ELSE SelectSeq(
             [i \in DOMAIN elems |->
                 [id |-> elems[i].id, web_name |-> elems[i].web_name,
                  team |-> elems[i].team, element_type |-> elems[i].element_type,
                  now_cost |-> elems[i].now_cost,
                  total_points |-> elems[i].total_points,
                  selected_by_percent |-> elems[i].selected_by_percent,
                  status |-> elems[i].status,
                  team_name |-> TeamLookup(teams_df, elems[i].team),
                  position |-> PositionLookup(positions_df, elems[i].element_type),
                  price |-> Price(elems[i].now_cost),
                  value_score |-> FloatDiv(Int2Rat(elems[i].total_points),
                                           Price(elems[i].now_cost))]],
             LAMBDA p : p.status # "u")

\* the "Apply filters" step of main of streamlit_app. The provider sends
\* selected_by_percent as a string ("12.5"), and the column is compared as it
\* is: for a frame with rows, str >= float raises TypeError.
streamlit_players_filter(players_df, a) ==
    LET by_position ==
            IF a.selected_position # "All"
            THEN SelectSeq(players_df, LAMBDA p : p.position = a.selected_position)
            ELSE players_df
        by_team ==
            IF a.selected_team # "All"
            THEN SelectSeq(by_position, LAMBDA p : p.team_name = a.selected_team)
            ELSE by_position
    IN  IF by_team # <<>> THEN Raised ELSE Returned(<<>>)

----------------------------------------------------------------------------
(* The loaders of enhanced_app, html_table_app and simple_table_app.       *)

\* a faulty variant: the minutes divided by the starts as they are
MinutesPerGameNoFloor(minutes, starts) ==
    FloatDiv(Int2Rat(minutes), Int2Rat(starts))
\* players['minutes'] / players['starts'].replace(0, 1)
MinutesPerGame(minutes, starts) ==
    RatDiv(Int2Rat(minutes), Replace0By1(Int2Rat(starts)))

\* FPLData.get_players_df of enhanced_app
enhanced_get_players_df(self) ==
    IF self.bootstrap_data = NoData THEN <<>>
    ELSE LET elems == self.bootstrap_data.elements
             teams_df == self.bootstrap_data.teams
             positions_df == self.bootstrap_data.element_types
         IN  [i \in DOMAIN elems |->
                 [id |-> elems[i].id, team |-> elems[i].team,
                  element_type |-> elems[i].element_type,
                  now_cost |-> elems[i].now_cost,
                  total_points |-> elems[i].total_points,
                  minutes |-> elems[i].minutes, starts |-> elems[i].starts,
                  team_name |-> TeamLookup(teams_df, elems[i].team),
                  position |-> PositionLookup(positions_df, elems[i].element_type),
                  price |-> Price(elems[i].now_cost),
                  value_score |-> FloatDiv(Int2Rat(elems[i].total_points),
                                           Price(elems[i].now_cost)),
                  minutes_per_game |->
                      MinutesPerGame(elems[i].minutes, elems[i].starts)]]

\* get_fpl_data of html_table_app
html_get_fpl_data(elems, teams_df, positions_df) ==
    IF ~(Readable(elems, "team") /\ Readable(teams_df, "id")
             /\ Readable(positions_df, "id"))
    THEN <<>>
    ELSE [i \in DOMAIN elems |->
             [id |-> elems[i].id, team |-> elems[i].team,
              element_type |-> elems[i].element_type,
              now_cost |-> elems[i].now_cost,
              total_points |-> elems[i].total_points,
              team_name |-> TeamLookup(teams_df, elems[i].team),
              position |-> PositionLookup(positions_df, elems[i].element_type),
              price |-> Price(elems[i].now_cost),
              value |-> FloatDiv(Int2Rat(elems[i].total_points),
                                 Price(elems[i].now_cost))]]

\* get_fpl_data of simple_table_app
simple_get_fpl_data(elems, teams_df, positions_df) ==
    IF ~(Readable(elems, "team") /\ Readable(teams_df, "id")
             /\ Readable(positions_df, "id"))
    THEN <<>>
    ELSE [i \in DOMAIN elems |->
             [id |-> elems[i].id, team |-> elems[i].team,
              element_type |-> elems[i].element_type,
              now_cost |-> elems[i].now_cost,
              total_points |-> elems[i].total_points,
              Team |-> TeamLookup(teams_df, elems[i].team),
              Position |-> PositionLookup(positions_df, elems[i].element_type),
              Price |-> Price(elems[i].now_cost),
              Player |-> elems[i].web_name,
              Value |-> FloatDiv(Int2Rat(elems[i].total_points),
                                 Price(elems[i].now_cost)),
              Ownership |-> elems[i].selected_by_percent,
              Form |-> elems[i].form]]

----------------------------------------------------------------------------
(* The multi-team fixtures table of enhanced_dashboard.                    *)

\* the rows one selected team adds to comparison_data: its fixtures up to
\* the gameweek limit, sorted by gameweek, at most gameweeks of them
TeamTableRows(fixtures_df, teams_df, team_id, gameweeks) ==
    LET hits == RowsWhere(teams_df, LAMBDA t : t.id = team_id)
        team_name == teams_df[CHOOSE i \in hits : \A j \in hits : i <= j].name
        team_fixtures ==
            SortByEvent(SelectSeq(fixtures_df, LAMBDA f :
                /\ f.team_h = team_id \/ f.team_a = team_id
                /\ f.event <= gameweeks))
        head == SubSeq(team_fixtures, 1,
                       IF Len(team_fixtures) < gameweeks THEN Len(team_fixtures)
                       ELSE gameweeks)
    IN  [i \in DOMAIN head |->
            [Team |-> team_name,
             GW |-> head[i].event,
             Opponent |-> Opponent(head[i], team_id),
             Venue |-> IF head[i].team_h = team_id THEN "H" ELSE "A",
             FPL_Difficulty |-> ProviderDifficulty(head[i], team_id),
             Granular_Difficulty |-> GranularDifficulty(head[i], team_id),
             Kickoff |-> head[i].kickoff_time]]

RECURSIVE TableFrom(_, _, _, _, _)
TableFrom(fixtures_df, teams_df, selected_teams, gameweeks, k) ==
    IF k > Len(selected_teams) THEN <<>>
    ELSE TeamTableRows(fixtures_df, teams_df, selected_teams[k], gameweeks)
             \o TableFrom(fixtures_df, teams_df, selected_teams, gameweeks, k + 1)

\* create_multi_team_fixtures_table: the name of every selected team is read
\* with .iloc[0] from the rows of the team table with that id, which raises
\* IndexError when there is none
create_multi_team_fixtures_table(fixtures_df, teams_df, selected_teams, gameweeks) ==
    IF \E k \in DOMAIN selected_teams :
           RowsWhere(teams_df, LAMBDA t : t.id = selected_teams[k]) = {}
    THEN Raised
    ELSE Returned(TableFrom(fixtures_df, teams_df, selected_teams, gameweeks, 1))

----------------------------------------------------------------------------
(* The operations.                                                         *)

\* the bounds of the inputs
MaxFixtures == 3
MaxWindow == 3
MaxPlayers == 2
MaxSquad == 3
MaxLoads == 3

\* enhanced_dashboard: a page calls load_fpl_data
LoadDashboard ==
    /\ pc = "start"
    /\ LET r == dashboard_load_fpl_data(elements, teams, element_types,
                                        raw_fixtures)
       IN  /\ players' = r.players
           /\ fixtures' = r.fixtures
           /\ team_stats' = r.team_stats
           /\ teams_frame' = r.teams
    /\ pc' = "enhanced_dashboard"
    /\ UNCHANGED <<teams, elements, element_types, raw_fixtures, timeline, request,
                   fpl_data, view>>

\* complete_streamlit_app: a page calls load_fpl_data
LoadComplete ==
    /\ pc = "start"
    /\ LET r == complete_load_fpl_data(elements, teams, element_types,
                                       raw_fixtures)
       IN  /\ players' = r.players
           /\ fixtures' = r.fixtures
           /\ team_stats' = r.team_stats
           /\ teams_frame' = r.teams
    /\ pc' = "complete_streamlit_app"
    /\ UNCHANGED <<teams, elements, element_types, raw_fixtures, timeline, request,
                   fpl_data, view>>

\* multipage_app: the players page calls fpl_data.get_players_df(), on the
\* object the module constructed
LoadMultipage ==
    /\ pc = "start"
    /\ fpl_data.loads > 0
    /\ players' = fpldata_get_players_df(fpl_data)
    /\ fixtures' = fpldata_get_fixtures_df(fpl_data)
    /\ pc' = "multipage_app"
    /\ UNCHANGED <<teams, elements, element_types, raw_fixtures, team_stats,
                   timeline, request, fpl_data, teams_frame, view>>

\* fixed_streamlit_app: main calls get_fpl_data
LoadFixed ==
    /\ pc = "start"
    /\ players' = fixed_get_fpl_data(elements, teams, element_types)
    /\ pc' = "fixed_streamlit_app"
    /\ UNCHANGED <<teams, elements, element_types, raw_fixtures, fixtures,
                   team_stats, timeline, request, fpl_data, teams_frame, view>>

\* a call of fpl_data.load_data(), the first by the constructor: it fetches
\* both documents, and either request can fail
FPLDataLoadData(boot_ok, fix_ok) ==
    /\ pc = "start"
    /\ fpl_data.loads < MaxLoads
    /\ fpl_data' = fpldata_load_data(fpl_data, boot_ok, fix_ok)
    /\ UNCHANGED <<pc, teams, elements, element_types, raw_fixtures, players,
                   fixtures, team_stats, timeline, request, teams_frame, view>>

\* the team ids a page can ask a timeline for: two teams of the snapshot and
\* an id no team and no fixture carries
RequestTeams == {1, 2, 4}
Windows == 1..MaxWindow

\* A script run (a callback, for multipage_app) serves one request: it loads
\* the data and computes one timeline.

\* complete_streamlit_app: fixtures_page calls calculate_fixture_difficulty
CompleteTimeline(team_id, window) ==
    /\ pc = "complete_streamlit_app"
    /\ request = NoRequest
    /\ timeline' = calculate_fixture_difficulty(fixtures, team_id, window)
    /\ request' = [fn |-> "calculate_fixture_difficulty", team_id |-> team_id,
                   window |-> window]
    /\ UNCHANGED <<pc, teams, elements, element_types, raw_fixtures, players,
                   fixtures, team_stats, fpl_data, teams_frame, view>>

\* enhanced_dashboard: fixtures_page calls single_team_analysis
SingleTeamAnalysis(team_id, window) ==
    /\ pc = "enhanced_dashboard"
    /\ request = NoRequest
    /\ fixtures # <<>>
    /\ timeline' = single_team_analysis(fixtures, team_id, window)
    /\ request' = [fn |-> "single_team_analysis", team_id |-> team_id,
                   window |-> window]
    /\ UNCHANGED <<pc, teams, elements, element_types, raw_fixtures, players,
                   fixtures, team_stats, fpl_data, teams_frame, view>>

\* multipage_app: update_fixtures_page calls
\* fpl_data.calculate_fixture_difficulty
MultipageTimeline(team_id, window) ==
    /\ pc = "multipage_app"
    /\ request = NoRequest
    /\ timeline' \in fpldata_timeline_outcomes(
                         fpldata_get_fixtures_df(fpl_data), team_id, window)
    /\ request' = [fn |-> "FPLData.calculate_fixture_difficulty",
                   team_id |-> team_id, window |-> window]
    /\ UNCHANGED <<pc, teams, elements, element_types, raw_fixtures, players,
                   fixtures, team_stats, fpl_data, teams_frame, view>>

\* streamlit_app: main calls load_fpl_data
LoadStreamlit ==
    /\ pc = "start"
    /\ players' = streamlit_load_fpl_data(elements, teams, element_types)
    /\ pc' = "streamlit_app"
    /\ UNCHANGED <<teams, elements, element_types, raw_fixtures, fixtures,
                   team_stats, timeline, request, fpl_data, teams_frame, view>>

\* enhanced_app: a callback calls fpl_data.get_players_df()
LoadEnhanced ==
    /\ pc = "start"
    /\ fpl_data.loads > 0
    /\ players' = enhanced_get_players_df(fpl_data)
    /\ pc' = "enhanced_app"
    /\ UNCHANGED <<teams, elements, element_types, raw_fixtures, fixtures,
                   team_stats, timeline, request, fpl_data, teams_frame, view>>

\* html_table_app: index calls get_fpl_data
LoadHtmlTable ==
    /\ pc = "start"
    /\ players' = html_get_fpl_data(elements, teams, element_types)
    /\ pc' = "html_table_app"
    /\ UNCHANGED <<teams, elements, element_types, raw_fixtures, fixtures,
                   team_stats, timeline, request, fpl_data, teams_frame, view>>

\* simple_table_app: main calls get_fpl_data
LoadSimpleTable ==
    /\ pc = "start"
    /\ players' = simple_get_fpl_data(elements, teams, element_types)
    /\ pc' = "simple_table_app"
    /\ UNCHANGED <<teams, elements, element_types, raw_fixtures, fixtures,
                   team_stats, timeline, request, fpl_data, teams_frame, view>>

\* check_granular_data.py: explore_detailed_fixture_data prints the custom
\* difficulty of the first fixtures of the feed
CheckGranularData ==
    /\ pc = "start"
    /\ LET r == SampleDifficulties(raw_fixtures, teams, 1)
       IN  view' = [fn |-> "check_granular_data", args |-> <<>>,
                    raised |-> r.raised, rows |-> r.rows]
    /\ pc' = "check_granular_data"
    /\ UNCHANGED <<teams, elements, element_types, raw_fixtures, players,
                   fixtures, team_stats, timeline, request, fpl_data, teams_frame>>

\* what a page's filter inputs can be set to
PositionChoices == SUBSET {"Goalkeeper", "Forward"}
TeamChoices == SUBSET {"Arsenal", "Burnley"}
\* the default range and one with a player's price on either end
PriceRanges == {<<Rat(4, 1), Rat(15, 1)>>, <<Rat(9, 2), Rat(10, 1)>>}
MinPoints == {0, 10}
MinOwnerships == {Rat(0, 1), Rat(5, 2)}

FilterArgs ==
    {[positions |-> ps, teams |-> ts, price_min |-> r[1], price_max |-> r[2],
      min_points |-> mp, min_ownership |-> mo] :
        ps \in PositionChoices, ts \in TeamChoices, r \in PriceRanges,
        mp \in MinPoints, mo \in MinOwnerships}

DashboardFilterArgs ==
    {[positions |-> ps, teams |-> ts, price_min |-> r[1], price_max |-> r[2],
      min_points |-> mp] :
        ps \in PositionChoices, ts \in TeamChoices, r \in PriceRanges,
        mp \in MinPoints}

StreamlitFilterArgs ==
    {[selected_position |-> sp, selected_team |-> st, min_price |-> r[1],
      max_price |-> r[2], min_points |-> mp, min_ownership |-> mo] :
        sp \in {"All", "Goalkeeper", "Forward"},
        st \in {"All", "Arsenal", "Burnley"}, r \in PriceRanges,
        mp \in MinPoints, mo \in MinOwnerships}

\* the rest of a page run, all but the view
PageFrame ==
    UNCHANGED <<pc, teams, elements, element_types, raw_fixtures, players,
                fixtures, team_stats, timeline, request, fpl_data, teams_frame>>

\* complete_streamlit_app: players_page filters the loaded players
CompletePlayersPage(a) ==
    /\ pc = "complete_streamlit_app"
    /\ view = NoView
    /\ players # <<>>
    /\ view' = [fn |-> "complete_streamlit_app.players_page", args |-> a,
                raised |-> FALSE, rows |-> complete_players_filter(players, a)]
    /\ PageFrame

\* fixed_streamlit_app: main filters the loaded players
FixedMain(a) ==
    /\ pc = "fixed_streamlit_app"
    /\ view = NoView
    /\ players # <<>>
    /\ view' = [fn |-> "fixed_streamlit_app.main", args |-> a,
                raised |-> FALSE, rows |-> complete_players_filter(players, a)]
    /\ PageFrame

\* enhanced_dashboard: players_page filters the loaded players
DashboardPlayersPage(a) ==
    /\ pc = "enhanced_dashboard"
    /\ view = NoView
    /\ players # <<>>
    /\ view' = [fn |-> "enhanced_dashboard.players_page", args |-> a,
                raised |-> FALSE, rows |-> dashboard_players_filter(players, a)]
    /\ PageFrame

\* enhanced_dashboard: create_multi_team_fixtures_table over the loaded frames
MultiTeamTable(selected_teams, gameweeks) ==
    /\ pc = "enhanced_dashboard"
    /\ view = NoView
    /\ fixtures # <<>> /\ teams_frame # <<>>
    /\ LET r == create_multi_team_fixtures_table(fixtures, teams_frame,
                                                 selected_teams, gameweeks)
       IN  view' = [fn |-> "create_multi_team_fixtures_table",
                    args |-> [selected_teams |-> selected_teams,
                              gameweeks |-> gameweeks],
                    raised |-> r.raised, rows |-> r.rows]
    /\ PageFrame

\* streamlit_app: main filters the loaded players
StreamlitMain(a) ==
    /\ pc = "streamlit_app"
    /\ view = NoView
    /\ players # <<>>
    /\ LET r == streamlit_players_filter(players, a)
       IN  view' = [fn |-> "streamlit_app.main", args |-> a,
                    raised |-> r.raised, rows |-> r.rows]
    /\ PageFrame

\* enhanced_dashboard: the derivations of load_fpl_data computed a second
\* time over the same snapshot, calculate_granular_difficulty on the frame
\* its first call returned
DerivationsAgain ==
    /\ pc = "enhanced_dashboard"
    /\ view = NoView
    /\ players # <<>> /\ fixtures # <<>>
    /\ LET ps == DashboardPlayers(elements, teams, element_types)
           fx == calculate_granular_difficulty(fixtures, teams_frame)
       IN  view' = [fn |-> "load_fpl_data", args |-> <<>>, raised |-> FALSE,
                    rows |-> [players |-> ps, fixtures |-> fx,
                              team_stats |->
                                  calculate_team_stats(ps, teams_frame, fx)]]
    /\ PageFrame

\* the timeline of the served request computed a second time (the next
\* script run with the same inputs)
TimelineAgain ==
    /\ pc \in {"enhanced_dashboard", "complete_streamlit_app"}
    /\ request # NoRequest
    /\ view = NoView
    /\ LET r == IF request.fn = "single_team_analysis"
                THEN single_team_analysis(fixtures, request.team_id,
                                          request.window)
                ELSE calculate_fixture_difficulty(fixtures, request.team_id,
                                                  request.window)
       IN  view' = [fn |-> request.fn, args |-> request,
                    raised |-> r.raised, rows |-> r.rows]
    /\ PageFrame

\* multipage_app: the callback update_fixtures_page for a selected team and
\* window: it computes the timeline and builds the fixtures table
UpdateFixturesPage(team_id, window) ==
    /\ pc = "multipage_app"
    /\ view = NoView
    /\ \E difficulty_data \in fpldata_timeline_outcomes(
                                   fpldata_get_fixtures_df(fpl_data), team_id,
                                   window) :
           LET r == update_fixtures_page(difficulty_data,
                                         fpl_data.bootstrap_data.teams, team_id)
           IN  view' = [fn |-> "update_fixtures_page",
                        args |-> [team_id |-> team_id, window |-> window],
                        raised |-> r.raised, rows |-> r.rows]
    /\ PageFrame

----------------------------------------------------------------------------
(* Snapshots.                                                              *)

TeamRow(id, name, ah, aa, dh, da, oh, oa) ==
    [id |-> id, name |-> name,
     strength_attack_home |-> ah, strength_attack_away |-> aa,
     strength_defence_home |-> dh, strength_defence_away |-> da,
     strength_overall_home |-> oh, strength_overall_away |-> oa]

DefaultTeams ==
    <<TeamRow(1, "Arsenal", 1100, 1300, 1200, 1000, 1150, 1180),
      TeamRow(2, "Burnley", 1040, 1020, 1080, 1100, 1050, 1060)>>

DefaultElementTypes ==
    <<[id |-> 1, singular_name |-> "Goalkeeper"],
      [id |-> 2, singular_name |-> "Defender"],
      [id |-> 3, singular_name |-> "Midfielder"],
      [id |-> 4, singular_name |-> "Forward"]>>

ElementRow(id, team, element_type, now_cost, total_points, own, form, stat) ==
    [id |-> id, web_name |-> id, team |-> team, element_type |-> element_type,
     now_cost |-> now_cost, total_points |-> total_points,
     selected_by_percent |-> own, form |-> form,
     goals_scored |-> stat, assists |-> stat + 1, clean_sheets |-> stat + 2,
     minutes |-> 90 * stat, starts |-> stat,
     status |-> IF stat = 0 THEN "u" ELSE "a"]

DefaultElements ==
    <<ElementRow(1, 1, 1, 45, 10, "2.5", "0.0", 0),
      ElementRow(2, 2, 4, 100, 57, "12.5", "2.5", 3)>>

FixtureRow(event, team_h, team_a, dh, da, kickoff) ==
    [event |-> event, team_h |-> team_h, team_a |-> team_a,
     team_h_difficulty |-> dh, team_a_difficulty |-> da,
     kickoff_time |-> kickoff]

\* all sequences over S of length 0..n
SeqsUpTo(S, n) == UNION {[1..k -> S] : k \in 0..n}

\* kickoff times in fixture order of the feed
Stamp(shapes) ==
    [i \in DOMAIN shapes |->
        FixtureRow(shapes[i].event, shapes[i].team_h, shapes[i].team_a,
                   shapes[i].dh, shapes[i].da, 100 * shapes[i].event + i)]

\* home and away side: the two teams of the snapshot, and a fixture of team 2
\* against a side (3) the team table lacks
Pairings == {<<1, 2>>, <<2, 1>>, <<2, 3>>}
\* gameweek and the provider's home and away difficulty of a fixture
Schedules == {<<1, 2, 4>>, <<2, 3, 3>>}

FixtureShapes ==
    {[event |-> g[1], team_h |-> p[1], team_a |-> p[2], dh |-> g[2], da |-> g[3]] :
        p \in Pairings, g \in Schedules}

\* any feed of up to MaxFixtures fixtures, over a fixed team and player table
Init ==
    /\ pc = "start"
    /\ teams = DefaultTeams
    /\ elements = DefaultElements
    /\ element_types = DefaultElementTypes
    /\ \E shapes \in SeqsUpTo(FixtureShapes, MaxFixtures) :
           raw_fixtures = Stamp(shapes)
    /\ players = <<>>
    /\ fixtures = <<>>
    /\ team_stats = <<>>
    /\ timeline = NoTimeline
    /\ request = NoRequest
    /\ fpl_data = Constructed
    /\ teams_frame = <<>>
    /\ view = NoView

Next ==
    \/ LoadDashboard
    \/ LoadComplete
    \/ LoadMultipage
    \/ \E team_id \in RequestTeams, window \in Windows :
           CompleteTimeline(team_id, window)
    \/ \E team_id \in RequestTeams, window \in Windows :
           SingleTeamAnalysis(team_id, window)
    \/ \E team_id \in RequestTeams, window \in Windows :
           MultipageTimeline(team_id, window)

Spec == Init /\ [][Next]_vars

----------------------------------------------------------------------------
(* Strength ratings drawn from a set, over a fixed feed of fixtures.       *)

\* ratings inside and outside the observed 900-1400 range
AttackValues == {700, 1300, 1800}
DefenceValues == {700, 1000, 1800}

\* fixtures between the two teams, against an unknown side (3), and with a
\* missing team id
DifficultyFixtures ==
    Stamp(<<[event |-> 1, team_h |-> 1, team_a |-> 2, dh |-> 2, da |-> 4],
            [event |-> 2, team_h |-> 2, team_a |-> 1, dh |-> 3, da |-> 3],
            [event |-> 3, team_h |-> 1, team_a |-> 3, dh |-> 2, da |-> 5],
            [event |-> 3, team_h |-> 3, team_a |-> 2, dh |-> 4, da |-> 2],
            [event |-> 4, team_h |-> NaN, team_a |-> 2, dh |-> 3, da |-> 3],
            [event |-> 4, team_h |-> 1, team_a |-> NaN, dh |-> 3, da |-> 3]>>)

InitDifficulty ==
    /\ pc = "start"
    /\ \E ah1, aa1, ah2, aa2 \in AttackValues,
          dh1, da1, dh2, da2 \in DefenceValues :
           teams = <<TeamRow(1, "Arsenal", ah1, aa1, dh1, da1, 1150, 1180),
                     TeamRow(2, "Burnley", ah2, aa2, dh2, da2, 1050, 1060)>>
    /\ elements = DefaultElements
    /\ element_types = DefaultElementTypes
    /\ raw_fixtures = DifficultyFixtures
    /\ players = <<>>
    /\ fixtures = <<>>
    /\ team_stats = <<>>
    /\ timeline = NoTimeline
    /\ request = NoRequest
    /\ fpl_data = Constructed
    /\ teams_frame = <<>>
    /\ view = NoView

NextDifficulty == LoadDashboard

SpecDifficulty == InitDifficulty /\ [][NextDifficulty]_vars

----------------------------------------------------------------------------
(* Properties of the timeline (under Spec).                                *)

TimelineFns == {"calculate_fixture_difficulty", "single_team_analysis",
                "FPLData.calculate_fixture_difficulty"}

\* the mean of the difficulties of rows lo..i, lo = max(1, i - N + 1)
WindowMean(rows, i, N) ==
    LET lo == IF i - N + 1 < 1 THEN 1 ELSE i - N + 1
    IN  RatDiv(SumRat([k \in 1..(i - lo + 1) |-> rows[lo + k - 1].difficulty]),
               Int2Rat(i - lo + 1))

\* C1: at every position of a timeline built with window N, the first N - 1
\* included, the rolling average is a number and equals the mean of the
\* difficulties of the last min(N, position) rows of the timeline.
C1_RollingAverageIsWindowMean ==
    (request.fn \in {"calculate_fixture_difficulty", "single_team_analysis"}
        /\ ~timeline.raised) =>
    \A i \in DOMAIN timeline.rows :
        /\ timeline.rows[i].rolling_difficulty.d > 0
        /\ timeline.rows[i].rolling_difficulty =
               WindowMean(timeline.rows, i, request.window)

\* difficulties [2, 4, 3] with window 2 give [2.0, 3.0, 3.5]
C1_Witness ==
    /\ request.fn = "calculate_fixture_difficulty"
    /\ request.window = 2
    /\ ~timeline.raised
    /\ Len(timeline.rows) = 3
    /\ [i \in 1..3 |-> timeline.rows[i].difficulty] =
           <<Int2Rat(2), Int2Rat(4), Int2Rat(3)>>
    /\ [i \in 1..3 |-> timeline.rows[i].rolling_difficulty] =
           <<Int2Rat(2), Int2Rat(3), Rat(7, 2)>>

\* the rows of the loaded fixtures frame in which team_id is a side
FixturesOf(team_id) ==
    {i \in DOMAIN fixtures :
        fixtures[i].team_h = team_id \/ fixtures[i].team_a = team_id}

\* C8: a timeline holds exactly the fixtures in which the team is the home or
\* the away side, each once, in non-decreasing order of gameweek.
C8_TimelineIsTeamsFixturesSorted ==
    (request.fn \in TimelineFns /\ ~timeline.raised) =>
    LET rows == timeline.rows
    IN  /\ {rows[i].index : i \in DOMAIN rows} = FixturesOf(request.team_id)
        /\ Len(rows) = Cardinality(FixturesOf(request.team_id))
        /\ \A i \in DOMAIN rows : rows[i].event = fixtures[rows[i].index].event
        /\ \A i, j \in DOMAIN rows : i < j => rows[i].event <= rows[j].event

\* a timeline of three fixtures, home and away, fed out of gameweek order,
\* from a feed that also holds a fixture of other teams
C8_Witness ==
    /\ request.fn \in TimelineFns
    /\ ~timeline.raised
    /\ Len(timeline.rows) = 2
    /\ Len(fixtures) = 3
    /\ timeline.rows[1].index > timeline.rows[2].index
    /\ timeline.rows[1].event < timeline.rows[2].event
    /\ \E i \in 1..2 : fixtures[timeline.rows[i].index].team_a = request.team_id

\* a timeline row without its rolling average
Frame(row) == [c \in DOMAIN row \ {"rolling_difficulty"} |-> row[c]]
Frames(rows) == [i \in DOMAIN rows |-> Frame(rows[i])]

\* the timeline the same request gives with window N
Recomputed(N) ==
    CASE request.fn = "calculate_fixture_difficulty" ->
             calculate_fixture_difficulty(fixtures, request.team_id, N)
      [] request.fn = "single_team_analysis" ->
             single_team_analysis(fixtures, request.team_id, N)
      [] request.fn = "FPLData.calculate_fixture_difficulty" ->
             fpldata_calculate_fixture_difficulty(fixtures, request.team_id, N)

\* C9: for a fixed snapshot and team, the timeline of any other window size
\* lists the same fixtures in the same order with the same gameweek,
\* difficulty, venue, opponent and kickoff; only the rolling averages differ.
C9_WindowOnlyChangesAverages ==
    (request.fn \in TimelineFns /\ ~timeline.raised) =>
    \A N \in Windows :
        /\ ~Recomputed(N).raised
        /\ Frames(Recomputed(N).rows) = Frames(timeline.rows)

\* a timeline whose averages do change with the window
C9_Witness ==
    /\ request.fn = "calculate_fixture_difficulty"
    /\ ~timeline.raised
    /\ Len(timeline.rows) >= 2
    /\ \E N \in Windows : Recomputed(N).rows # timeline.rows

----------------------------------------------------------------------------
(* Properties of the difficulty model (under SpecDifficulty).              *)

Loaded == pc = "enhanced_dashboard"

\* the team row with this id (ids are unique in these snapshots)
TeamById(id) == teams[CHOOSE k \in DOMAIN teams : teams[k].id = id]
Resolvable(id) == id # NaN /\ \E k \in DOMAIN teams : teams[k].id = id
BothResolvable(f) == Resolvable(f.team_h) /\ Resolvable(f.team_a)

\* (v - 1000) / 400 * 5 + 2.5 over the common denominator 800
Normalized(v) == Rat(10 * (v - 1000) + 2000, 800)

\* x limited to [0, 10]
Limited(x) ==
    IF RatLt(x, Int2Rat(0)) THEN Int2Rat(0)
    ELSE IF RatLt(Int2Rat(10), x) THEN Int2Rat(10) ELSE x

\* the mean of the two normalized ratings, limited to [0, 10]
Score(defence, attack) ==
    Limited(RatDiv(RatAdd(Normalized(defence), Normalized(attack)), Int2Rat(2)))

\* C2: for a fixture with resolvable teams H and A the home score is the mean
\* of the normalized away defence and away attack ratings of A, the away
\* score that of the home defence and home attack ratings of H, each
\* limited to [0, 10].
C2_GranularDifficultyFormula ==
    Loaded =>
    \A i \in DOMAIN fixtures :
        BothResolvable(fixtures[i]) =>
            LET H == TeamById(fixtures[i].team_h)
                A == TeamById(fixtures[i].team_a)
            IN  /\ fixtures[i].home_difficulty_granular =
                       Score(A.strength_defence_away, A.strength_attack_away)
                /\ fixtures[i].away_difficulty_granular =
                       Score(H.strength_defence_home, H.strength_attack_home)

\* the home side facing away ratings attack 1300 / defence 1000 gets 4.375,
\* while its own home ratings would give another score
C2_Witness ==
    /\ Loaded
    /\ fixtures[1].team_h = 1 /\ fixtures[1].team_a = 2
    /\ teams[2].strength_attack_away = 1300
    /\ teams[2].strength_defence_away = 1000
    /\ teams[1].strength_attack_home = 1800
    /\ teams[1].strength_defence_home = 1800
    /\ fixtures[1].home_difficulty_granular = Rat(35, 8)

\* C3: both granular difficulties of every fixture lie in [0, 10], whatever
\* the ratings and whether or not the teams resolve.
C3_GranularDifficultyInRange ==
    Loaded =>
    \A i \in DOMAIN fixtures :
        /\ RatLe(Int2Rat(0), fixtures[i].home_difficulty_granular)
        /\ RatLe(fixtures[i].home_difficulty_granular, Int2Rat(10))
        /\ RatLe(Int2Rat(0), fixtures[i].away_difficulty_granular)
        /\ RatLe(fixtures[i].away_difficulty_granular, Int2Rat(10))

\* ratings whose unclamped mean leaves the scale on both ends
C3_Witness ==
    /\ Loaded
    /\ teams[2].strength_attack_away = 700 /\ teams[2].strength_defence_away = 700
    /\ teams[1].strength_attack_home = 1800 /\ teams[1].strength_defence_home = 1800
    /\ fixtures[1].home_difficulty_granular = Int2Rat(0)
    /\ fixtures[1].away_difficulty_granular = Int2Rat(10)

\* C4: a fixture with a missing or unknown home or away team id gets 5.0 for
\* both perspectives, the load does not fail and drops no fixture, and the
\* fixtures with resolvable teams get their usual score.
C4_UnresolvedTeamIsNeutral ==
    Loaded =>
    /\ Len(fixtures) = Len(raw_fixtures)
    /\ \A i \in DOMAIN fixtures :
           /\ fixtures[i].team_h = raw_fixtures[i].team_h
           /\ fixtures[i].team_a = raw_fixtures[i].team_a
           /\ IF BothResolvable(fixtures[i])
              THEN fixtures[i].home_difficulty_granular =
                       Score(TeamById(fixtures[i].team_a).strength_defence_away,
                             TeamById(fixtures[i].team_a).strength_attack_away)
              ELSE /\ fixtures[i].home_difficulty_granular = Int2Rat(5)
                   /\ fixtures[i].away_difficulty_granular = Int2Rat(5)

\* missing and unknown ids on either side, next to a resolvable fixture whose
\* score is not the neutral one
C4_Witness ==
    /\ Loaded
    /\ \E i \in DOMAIN fixtures : fixtures[i].team_h = NaN
    /\ \E i \in DOMAIN fixtures : fixtures[i].team_a = NaN
    /\ \E i \in DOMAIN fixtures :
           fixtures[i].team_h # NaN /\ ~Resolvable(fixtures[i].team_h)
    /\ \E i \in DOMAIN fixtures :
           fixtures[i].team_a # NaN /\ ~Resolvable(fixtures[i].team_a)
    /\ \E i \in DOMAIN fixtures :
           BothResolvable(fixtures[i])
               /\ fixtures[i].home_difficulty_granular # Int2Rat(5)

----------------------------------------------------------------------------
(* Players drawn from a set, over a fixed team table and fixture feed.     *)

DefaultFixtures == Stamp(<<[event |-> 1, team_h |-> 1, team_a |-> 2,
                           dh |-> 2, da |-> 4]>>)

\* costs in tenths: free, below one unit, ordinary
CostValues == {0, 5, 45, 100}
PointValues == {0, 10, 57}

\* player i of the feed
Numbered(shapes) ==
    [i \in DOMAIN shapes |->
        ElementRow(i, shapes[i].team, shapes[i].element_type, shapes[i].now_cost,
                   shapes[i].total_points, shapes[i].own, shapes[i].form,
                   shapes[i].stat)]

PlayerShapes ==
    {[team |-> 1, element_type |-> 3, now_cost |-> c, total_points |-> t,
      own |-> "2.5", form |-> "0.0", stat |-> 1] :
        c \in CostValues, t \in PointValues}

InitPlayers ==
    /\ pc = "start"
    /\ teams = DefaultTeams
    /\ element_types = DefaultElementTypes
    /\ \E shapes \in SeqsUpTo(PlayerShapes, MaxPlayers) \ {<<>>} :
           elements = Numbered(shapes)
    /\ raw_fixtures = DefaultFixtures
    /\ players = <<>>
    /\ fixtures = <<>>
    /\ team_stats = <<>>
    /\ timeline = NoTimeline
    /\ request = NoRequest
    /\ fpl_data = Constructed
    /\ teams_frame = <<>>
    /\ view = NoView

NextPlayers ==
    \/ LoadDashboard
    \/ LoadComplete
    \/ LoadFixed
    \/ LoadMultipage

SpecPlayers == InitPlayers /\ [][NextPlayers]_vars

\* the price column, whatever the loader calls it
PriceOf(row) == IF "Price" \in DOMAIN row THEN row.Price ELSE row.price

\* C5: in the output of load_fpl_data the value score is total_points / price
\* for a positive price and total_points for price 0.
C5_ValueScore ==
    pc \in {"enhanced_dashboard", "complete_streamlit_app"} =>
    /\ Len(players) = Len(elements)
    /\ \A i \in DOMAIN players :
           IF RatLt(Int2Rat(0), players[i].Price)
           THEN /\ players[i].Value.d > 0
                /\ RatEq(RatMul(players[i].Value, players[i].Price),
                         Int2Rat(elements[i].total_points))
           ELSE players[i].Value = Int2Rat(elements[i].total_points)

\* a player with cost 0 and 10 points has price 0.0 and value score 10.0,
\* next to a player whose price is below one unit
C5_Witness ==
    /\ pc = "complete_streamlit_app"
    /\ \E i \in DOMAIN players :
           /\ elements[i].now_cost = 0 /\ elements[i].total_points = 10
           /\ players[i].Price = Int2Rat(0)
           /\ players[i].Value = Int2Rat(10)
    /\ \E i \in DOMAIN players :
           elements[i].now_cost = 5 /\ elements[i].total_points = 10

\* max(x, 1)
AtLeastOne(x) == IF RatLt(x, Int2Rat(1)) THEN Int2Rat(1) ELSE x

\* C6 as stated: the value score is total_points / max(price, 1) for every
\* cost >= 0, so that for costs 1..9 the divisor is 1.
C6_ValueScoreFloorAtOne ==
    pc \in {"enhanced_dashboard", "fixed_streamlit_app"} =>
    \A i \in DOMAIN players :
        players[i].Value =
            RatDiv(Int2Rat(elements[i].total_points),
                   AtLeastOne(Rat(elements[i].now_cost, 10)))

\* C6 (amended): only the price 0 is replaced by 1: for every cost >= 1,
\* costs 1..9 included, the value score is total_points * 10 / cost (the
\* divisor is the price itself, also when it is below 1), and for cost 0 it
\* is total_points.
C6_ValueScoreFloorAtZeroOnly ==
    pc \in {"enhanced_dashboard", "fixed_streamlit_app"} =>
    \A i \in DOMAIN players :
        players[i].Value =
            IF elements[i].now_cost = 0 THEN Int2Rat(elements[i].total_points)
            ELSE Rat(10 * elements[i].total_points, elements[i].now_cost)

\* a player costing 0.5 with 10 points: value score 20, not 10
C6_Witness ==
    /\ pc = "fixed_streamlit_app"
    /\ \E i \in DOMAIN players :
           /\ elements[i].now_cost = 5 /\ elements[i].total_points = 10
           /\ players[i].Value = Int2Rat(20)

\* C7: in every loader's output the price is the tenth of the cost and is not
\* negative.
C7_PriceIsTenthOfCost ==
    pc # "start" =>
    /\ Len(players) = Len(elements)
    /\ \A i \in DOMAIN players :
           /\ PriceOf(players[i]).d > 0
           /\ 10 * PriceOf(players[i]).n = elements[i].now_cost * PriceOf(players[i]).d
           /\ PriceOf(players[i]).n >= 0

\* FPLData.get_players_df gives a player of cost 45 the price 4.5
C7_Witness ==
    /\ pc = "multipage_app"
    /\ \E i \in DOMAIN players :
           elements[i].now_cost = 45 /\ players[i].price = Rat(9, 2)

----------------------------------------------------------------------------
(* Squads drawn from a set: players of team 1, of team 2 and of a team (3) *)
(* the team table lacks, with ties in points and in price.                 *)

SquadTeams == {1, 2, 3}

\* element_type 5 is a position the position table lacks
SquadProfiles ==
    {[element_type |-> 1, now_cost |-> 45, total_points |-> 10,
      own |-> "2.5", form |-> "0.0", stat |-> 0],
     [element_type |-> 4, now_cost |-> 100, total_points |-> 57,
      own |-> "12.5", form |-> "2.5", stat |-> 3],
     [element_type |-> 5, now_cost |-> 45, total_points |-> 57,
      own |-> "", form |-> "12.5", stat |-> 1]}

SquadShapes ==
    {[team |-> t, element_type |-> q.element_type, now_cost |-> q.now_cost,
      total_points |-> q.total_points, own |-> q.own, form |-> q.form,
      stat |-> q.stat] : t \in SquadTeams, q \in SquadProfiles}

InitTeamStats ==
    /\ pc = "start"
    /\ teams = DefaultTeams
    /\ element_types = DefaultElementTypes
    /\ \E shapes \in SeqsUpTo(SquadShapes, MaxSquad) :
           elements = Numbered(shapes)
    /\ raw_fixtures = DefaultFixtures
    /\ players = <<>>
    /\ fixtures = <<>>
    /\ team_stats = <<>>
    /\ timeline = NoTimeline
    /\ request = NoRequest
    /\ fpl_data = Constructed
    /\ teams_frame = <<>>
    /\ view = NoView

NextTeamStats == LoadDashboard

SpecTeamStats == InitTeamStats /\ [][NextTeamStats]_vars

\* the feed's players of a team
Members(team_id) == {i \in DOMAIN elements : elements[i].team = team_id}

RECURSIVE SumOver(_, _)
\* the sum of vals[i] over the i in S
SumOver(S, vals) ==
    IF S = {} THEN 0
    ELSE LET i == CHOOSE x \in S : TRUE
         IN  vals[i] + SumOver(S \ {i}, vals)

\* the sum of Get over the feed's players in S
Total(S, Get(_)) == SumOver(S, [i \in DOMAIN elements |-> Get(elements[i])])

\* C10: every team with at least one player has a record, and every record's
\* player count and totals of points, goals, assists, clean sheets, price and
\* minutes are those of exactly the players carrying that team's id.
C10_TeamTotals ==
    Loaded =>
    /\ \A k \in DOMAIN teams :
           Members(teams[k].id) # {} =>
               \E r \in DOMAIN team_stats : team_stats[r].team_id = teams[k].id
    /\ \A r \in DOMAIN team_stats :
           LET rec == team_stats[r]
               M == Members(rec.team_id)
           IN  /\ rec.total_players = Cardinality(M)
               /\ rec.total_points = Int2Rat(Total(M, LAMBDA e : e.total_points))
               /\ rec.total_goals = Int2Rat(Total(M, LAMBDA e : e.goals_scored))
               /\ rec.total_assists = Int2Rat(Total(M, LAMBDA e : e.assists))
               /\ rec.total_clean_sheets =
                      Int2Rat(Total(M, LAMBDA e : e.clean_sheets))
               /\ rec.total_value = Rat(Total(M, LAMBDA e : e.now_cost), 10)
               /\ rec.total_minutes = Int2Rat(Total(M, LAMBDA e : e.minutes))

\* a team of two players next to a player of the other team
C10_Witness ==
    /\ Loaded
    /\ Len(elements) = 3
    /\ Cardinality(Members(1)) = 2
    /\ Cardinality(Members(2)) = 1
    /\ \E r \in DOMAIN team_stats :
           /\ team_stats[r].team_id = 1
           /\ team_stats[r].total_players = 2
           /\ team_stats[r].total_points = Int2Rat(67)
           /\ team_stats[r].total_value = Rat(29, 2)

\* the records of team_stats carrying this team id
RecordsOf(team_id) == {r \in DOMAIN team_stats : team_stats[r].team_id = team_id}

\* C11: the team stats hold exactly one record for every team of the team
\* table that has at least one player, none for a team without players and
\* none for an id the team table lacks; without any player they are empty.
C11_OneRecordPerTeamWithPlayers ==
    Loaded =>
    /\ \A k \in DOMAIN teams :
           Cardinality(RecordsOf(teams[k].id)) =
               IF Members(teams[k].id) # {} THEN 1 ELSE 0
    /\ \A r \in DOMAIN team_stats :
           \E k \in DOMAIN teams : teams[k].id = team_stats[r].team_id
    /\ elements = <<>> => team_stats = <<>>

\* the first team of the table has no player, the second has two, and a
\* third player carries a team id the table lacks
C11_Witness ==
    /\ Loaded
    /\ Members(1) = {}
    /\ Cardinality(Members(2)) = 2
    /\ Cardinality(Members(3)) = 1
    /\ Len(team_stats) = 1
    /\ team_stats[1].team_id = 2

\* the first of the feed's players in S with the largest Get
FirstMax(S, vals) ==
    CHOOSE i \in S :
        /\ \A j \in S : vals[j] <= vals[i]
        /\ \A j \in S : vals[j] = vals[i] => i <= j

\* C12: in every record the top scorer is the first player of the team, in
\* feed order, whose points are the team's maximum, and the most expensive
\* the first whose price is the team's maximum; the record's maxima are those
\* players' points and price.
C12_FirstOccurrenceWinsTies ==
    Loaded =>
    \A r \in DOMAIN team_stats :
        LET rec == team_stats[r]
            M == Members(rec.team_id)
            top == FirstMax(M, [i \in DOMAIN elements |-> elements[i].total_points])
            dear == FirstMax(M, [i \in DOMAIN elements |-> elements[i].now_cost])
        IN  /\ rec.top_scorer = elements[top].web_name
            /\ rec.top_scorer_points = Int2Rat(elements[top].total_points)
            /\ rec.most_expensive = elements[dear].web_name
            /\ rec.most_expensive_price = Rat(elements[dear].now_cost, 10)

\* a team whose three players tie on the maximum of points and whose second
\* and third tie on the maximum of price, above the first
C12_Witness ==
    /\ Loaded
    /\ Members(1) = {1, 2, 3}
    /\ elements[1].total_points = elements[2].total_points
    /\ elements[2].total_points = elements[3].total_points
    /\ elements[1].now_cost < elements[2].now_cost
    /\ elements[2].now_cost = elements[3].now_cost
    /\ team_stats[1].top_scorer = 1
    /\ team_stats[1].most_expensive = 2

----------------------------------------------------------------------------
(* Player feeds for the filters: prices on and outside the ends of a price *)
(* range, points and ownership on and below the minima.                    *)

FilterProfiles ==
    {[team |-> 1, element_type |-> 1, now_cost |-> 45, total_points |-> 10,
      own |-> "2.5", form |-> "0.0", stat |-> 1],
     [team |-> 2, element_type |-> 4, now_cost |-> 100, total_points |-> 57,
      own |-> "12.5", form |-> "2.5", stat |-> 3],
     [team |-> 1, element_type |-> 4, now_cost |-> 40, total_points |-> 0,
      own |-> "", form |-> "0.0", stat |-> 0],
     [team |-> 2, element_type |-> 1, now_cost |-> 105, total_points |-> 10,
      own |-> "0.0", form |-> "12.5", stat |-> 1]}

InitFilters ==
    /\ pc = "start"
    /\ teams = DefaultTeams
    /\ element_types = DefaultElementTypes
    /\ \E shapes \in SeqsUpTo(FilterProfiles, MaxPlayers) :
           elements = Numbered(shapes)
    /\ raw_fixtures = DefaultFixtures
    /\ players = <<>>
    /\ fixtures = <<>>
    /\ team_stats = <<>>
    /\ timeline = NoTimeline
    /\ request = NoRequest
    /\ fpl_data = Constructed
    /\ teams_frame = <<>>
    /\ view = NoView

NextFilters ==
    \/ LoadComplete
    \/ LoadFixed
    \/ LoadDashboard
    \/ LoadStreamlit
    \/ \E a \in FilterArgs : CompletePlayersPage(a)
    \/ \E a \in FilterArgs : FixedMain(a)
    \/ \E a \in DashboardFilterArgs : DashboardPlayersPage(a)
    \/ \E a \in StreamlitFilterArgs : StreamlitMain(a)

SpecFilters == InitFilters /\ [][NextFilters]_vars

PlayerFilterFns ==
    {"complete_streamlit_app.players_page", "fixed_streamlit_app.main",
     "enhanced_dashboard.players_page"}

\* the loaded players that satisfy the predicates of a, those named in skip
\* left out; a page without an ownership input has no ownership predicate
Matching(a, skip) ==
    {i \in DOMAIN players :
        /\ "position" \in skip \/ players[i].Position \in a.positions
        /\ "team" \in skip \/ players[i].Team \in a.teams
        /\ RatLe(a.price_min, players[i].Price)
        /\ RatLe(players[i].Price, a.price_max)
        /\ players[i].total_points >= a.min_points
        /\ "min_ownership" \in DOMAIN a =>
               RatLe(a.min_ownership, players[i].Ownership)}

\* rows are the loaded players with index in S, each once, in input order
InInputOrder(rows, S) ==
    /\ Len(rows) = Cardinality(S)
    /\ \A k \in DOMAIN rows :
           rows[k] = players[CHOOSE i \in S : Cardinality({j \in S : j < i}) = k - 1]

\* C13 as stated: the filtered players are those of the input, in input
\* order, whose position is in the selected positions, whose team is in the
\* selected teams, whose price is in the inclusive range and whose points and
\* ownership reach the minima.
C13_FilterIsConjunction ==
    view.fn \in PlayerFilterFns => InInputOrder(view.rows, Matching(view.args, {}))

\* C13 (amended): as stated when at least one team is selected; with no team
\* selected the team predicate is not applied.
C13_FilterIsConjunctionTeamsIfAny ==
    view.fn \in PlayerFilterFns =>
        InInputOrder(view.rows,
                     Matching(view.args,
                              IF view.args.teams = {} THEN {"team"} ELSE {}))

\* a selection by team that keeps, of two players, the second: its price is
\* the upper end of the range
C13_Witness ==
    /\ view.fn = "complete_streamlit_app.players_page"
    /\ view.args.teams # {}
    /\ view.args.price_max = Rat(10, 1)
    /\ Len(players) = 2
    /\ Len(view.rows) = 1
    /\ view.rows[1] = players[2]
    /\ view.rows[1].Price = Rat(10, 1)

\* C14 as stated: an empty position selection, and likewise an empty team
\* selection, filters as if that predicate were not applied.
C14_EmptySelectionMatchesAll ==
    view.fn \in PlayerFilterFns =>
        InInputOrder(view.rows,
                     Matching(view.args,
                              (IF view.args.positions = {} THEN {"position"} ELSE {})
                                  \cup (IF view.args.teams = {} THEN {"team"} ELSE {})))

\* the page's filter step applied to a frame
FilterOf(fn, df, a) ==
    IF fn = "enhanced_dashboard.players_page" THEN dashboard_players_filter(df, a)
    ELSE complete_players_filter(df, a)

PredicateNames == <<"position", "team", "price", "points", "ownership">>

\* one predicate of the page applied alone to a frame
ApplyPredicate(name, df, a) ==
    CASE name = "position" ->
             SelectSeq(df, LAMBDA p : InPositions(p, a.positions))
      [] name = "team" -> TeamFilter(df, a.teams)
      [] name = "price" ->
             SelectSeq(df, LAMBDA p : PriceInRange(p, a.price_min, a.price_max))
      [] name = "points" ->
             SelectSeq(df, LAMBDA p : HasMinPoints(p, a.min_points))
      [] name = "ownership" ->
             IF "min_ownership" \in DOMAIN a
             THEN SelectSeq(df, LAMBDA p : HasMinOwnership(p, a.min_ownership))
             ELSE df

\* the predicates applied one after another, the k last of the order first
RECURSIVE ApplyInOrder(_, _, _, _)
ApplyInOrder(order, k, df, a) ==
    IF k = 0 THEN df
    ELSE ApplyPredicate(PredicateNames[order[k]],
                        ApplyInOrder(order, k - 1, df, a), a)

OwnershipFilterFns ==
    {"complete_streamlit_app.players_page", "fixed_streamlit_app.main",
     "streamlit_app.main"}

\* the ownership of a loaded or filtered row as a number: the coerced column
\* where the loader made one, else the provider's value coerced
OwnershipNumber(row) ==
    IF "Ownership" \in DOMAIN row THEN row.Ownership
    ELSE ToNumericFillna0(row.selected_by_percent)

\* C19 as stated: the ownership and form of every loaded player are the
\* numbers the provider's strings denote, 0 for an empty or non-numeric
\* string, and every minimum-ownership filter works on these numbers: it
\* returns, and keeps only players whose number reaches the minimum.
C19_ConsumersUseCoercedNumbers ==
    /\ pc \in {"enhanced_dashboard", "complete_streamlit_app",
               "fixed_streamlit_app"} =>
           \A i \in DOMAIN players :
               /\ players[i].Ownership =
                      ToNumericFillna0(elements[i].selected_by_percent)
               /\ players[i].Form = ToNumericFillna0(elements[i].form)
    /\ view.fn \in OwnershipFilterFns =>
           /\ ~view.raised
           /\ \A k \in DOMAIN view.rows :
                  RatLe(view.args.min_ownership, OwnershipNumber(view.rows[k]))

----------------------------------------------------------------------------
(* Timeline requests with any arguments a caller can pass: every window    *)
(* from 0, and the team id (3) that fixtures carry and the team table      *)
(* lacks.                                                                  *)

AnyWindows == 0..MaxWindow
AnyTeams == RequestTeams \cup {3}

NextRequests ==
    \/ LoadDashboard
    \/ LoadComplete
    \/ LoadMultipage
    \/ \E team_id \in AnyTeams, window \in AnyWindows :
           CompleteTimeline(team_id, window)
    \/ \E team_id \in AnyTeams, window \in AnyWindows :
           SingleTeamAnalysis(team_id, window)
    \/ \E team_id \in AnyTeams, window \in AnyWindows :
           MultipageTimeline(team_id, window)

SpecRequests == Init /\ [][NextRequests]_vars

\* C16 as stated, for a snapshot that holds fixtures: a timeline request with
\* a window below 1, or for a team id that no team of the snapshot carries,
\* does not raise and returns the result that stands for "no timeline": an
\* empty one.
C16_InvalidRequestRejected ==
    (/\ request.fn \in TimelineFns
     /\ fixtures # <<>>
     /\ \/ request.window < 1
        \/ \A k \in DOMAIN teams : teams[k].id # request.team_id) =>
    (~timeline.raised /\ timeline.rows = <<>>)

----------------------------------------------------------------------------
(* Snapshots whose root collections may be absent or malformed.            *)

\* a root that is not the list of rows expected: the provider's error body
MalformedRoot == <<[detail |-> "Not found."]>>

Broken(root) == root = <<>> \/ root = MalformedRoot

InitRoots ==
    /\ pc = "start"
    /\ teams \in {DefaultTeams, <<>>, MalformedRoot}
    /\ elements \in {DefaultElements, <<>>, MalformedRoot}
    /\ element_types \in {DefaultElementTypes, <<>>, MalformedRoot}
    /\ raw_fixtures \in {DefaultFixtures, <<>>, MalformedRoot}
    /\ players = <<>>
    /\ fixtures = <<>>
    /\ team_stats = <<>>
    /\ timeline = NoTimeline
    /\ request = NoRequest
    /\ fpl_data = Constructed
    /\ teams_frame = <<>>
    /\ view = NoView

NextRoots ==
    \/ LoadDashboard
    \/ LoadComplete

SpecRoots == InitRoots /\ [][NextRoots]_vars

\* C17: when a root collection (players, teams, positions, fixtures) of the
\* snapshot is absent or malformed, load_fpl_data returns, and each of the
\* players, fixtures, teams and team stats it returns is empty; otherwise
\* the players, fixtures and teams it returns are all filled.
C17_BrokenRootGivesAllEmpty ==
    pc \in {"enhanced_dashboard", "complete_streamlit_app"} =>
    IF Broken(elements) \/ Broken(teams) \/ Broken(element_types)
           \/ Broken(raw_fixtures)
    THEN players = <<>> /\ fixtures = <<>> /\ teams_frame = <<>>
             /\ team_stats = <<>>
    ELSE players # <<>> /\ fixtures # <<>> /\ teams_frame # <<>>

\* only the fixtures root, the last the loader reads, is malformed: nothing
\* of the players and teams already built is returned
C17_Witness ==
    /\ pc = "enhanced_dashboard"
    /\ elements = DefaultElements
    /\ teams = DefaultTeams
    /\ element_types = DefaultElementTypes
    /\ raw_fixtures = MalformedRoot
    /\ players = <<>> /\ fixtures = <<>> /\ teams_frame = <<>> /\ team_stats = <<>>

----------------------------------------------------------------------------
(* Snapshots with references that do not resolve: players of a team (3)    *)
(* and of a position (5) the tables lack, fixtures against team 3 and with *)
(* a missing team id.                                                      *)

InitUnresolved ==
    /\ pc = "start"
    /\ teams = DefaultTeams
    /\ element_types = DefaultElementTypes
    /\ \E shapes \in SeqsUpTo(SquadShapes, MaxPlayers) \ {<<>>} :
           elements = Numbered(shapes)
    /\ raw_fixtures = DifficultyFixtures
    /\ players = <<>>
    /\ fixtures = <<>>
    /\ team_stats = <<>>
    /\ timeline = NoTimeline
    /\ request = NoRequest
    /\ fpl_data = Constructed
    /\ teams_frame = <<>>
    /\ view = NoView

\* the selections of teams for the table, and the gameweek limits
TableSelections == {<<1>>, <<2, 1>>, <<3>>, <<1, 3>>}
GameweekLimits == {1, 3}

NextUnresolved ==
    \/ LoadDashboard
    \/ LoadComplete
    \/ \E selected_teams \in TableSelections, gameweeks \in GameweekLimits :
           MultiTeamTable(selected_teams, gameweeks)

SpecUnresolved == InitUnresolved /\ [][NextUnresolved]_vars

\* the name the claim gives a reference: the looked-up name, or "Unknown"
\* for an id the lookup lacks
NameOrUnknown(table, id, col) ==
    IF \E k \in DOMAIN table : table[k].id = id
    THEN table[CHOOSE k \in DOMAIN table : table[k].id = id][col]
    ELSE "Unknown"

\* C18 as stated: the loader gives every player the name of its team and of
\* its position, and every fixture the names of its two teams, with
\* "Unknown" for an id the lookup lacks; and the multi-team table does not
\* raise for a selected team id that matches no team.
C18_UnresolvedNameIsUnknown ==
    /\ pc \in {"enhanced_dashboard", "complete_streamlit_app"} =>
           /\ \A i \in DOMAIN players :
                  /\ players[i].Team = NameOrUnknown(teams, elements[i].team, "name")
                  /\ players[i].Position =
                         NameOrUnknown(element_types, elements[i].element_type,
                                       "singular_name")
           /\ \A i \in DOMAIN fixtures :
                  /\ fixtures[i].team_h_name =
                         NameOrUnknown(teams, raw_fixtures[i].team_h, "name")
                  /\ fixtures[i].team_a_name =
                         NameOrUnknown(teams, raw_fixtures[i].team_a, "name")
    /\ view.fn = "create_multi_team_fixtures_table" => ~view.raised

----------------------------------------------------------------------------
(* The FPLData object over load_data calls whose requests can fail.        *)

InitFPLData ==
    /\ pc = "start"
    /\ teams = DefaultTeams
    /\ elements = DefaultElements
    /\ element_types = DefaultElementTypes
    /\ raw_fixtures = DefaultFixtures
    /\ players = <<>>
    /\ fixtures = <<>>
    /\ team_stats = <<>>
    /\ timeline = NoTimeline
    /\ request = NoRequest
    /\ fpl_data = fpldata_init
    /\ teams_frame = <<>>
    /\ view = NoView

NextFPLData ==
    \/ \E boot_ok, fix_ok \in BOOLEAN : FPLDataLoadData(boot_ok, fix_ok)
    \/ LoadMultipage
    \/ \E team_id \in RequestTeams, window \in Windows :
           MultipageTimeline(team_id, window)

SpecFPLData == InitFPLData /\ [][NextFPLData]_vars

\* C20 as stated: the bootstrap_data and the fixtures_data the object holds
\* were set by the same load_data call, or both are absent.
C20_SnapshotFromOneLoad ==
    fpl_data.bootstrap_data.load = fpl_data.fixtures_data.load

----------------------------------------------------------------------------
(* Derivations computed twice over one snapshot: feeds in which two        *)
(* fixtures of a team share a gameweek.                                    *)

SharedGameweekShapes ==
    {[event |-> 1, team_h |-> 1, team_a |-> 2, dh |-> 2, da |-> 4],
     [event |-> 1, team_h |-> 2, team_a |-> 1, dh |-> 3, da |-> 3],
     [event |-> 2, team_h |-> 1, team_a |-> 3, dh |-> 2, da |-> 5]}

InitAgain ==
    /\ pc = "start"
    /\ teams = DefaultTeams
    /\ elements = DefaultElements
    /\ element_types = DefaultElementTypes
    /\ \E shapes \in SeqsUpTo(SharedGameweekShapes, MaxFixtures) :
           raw_fixtures = Stamp(shapes)
    /\ players = <<>>
    /\ fixtures = <<>>
    /\ team_stats = <<>>
    /\ timeline = NoTimeline
    /\ request = NoRequest
    /\ fpl_data = Constructed
    /\ teams_frame = <<>>
    /\ view = NoView

NextAgain ==
    \/ LoadDashboard
    \/ LoadComplete
    \/ \E team_id \in RequestTeams, window \in Windows :
           CompleteTimeline(team_id, window)
    \/ \E team_id \in RequestTeams, window \in Windows :
           SingleTeamAnalysis(team_id, window)
    \/ DerivationsAgain
    \/ TimelineAgain

SpecAgain == InitAgain /\ [][NextAgain]_vars

----------------------------------------------------------------------------
(* Players with and without starts, with and without a cost, through every *)
(* loader that derives a value score.                                      *)

\* minutes and starts: unused, substitute only, one start, three starts
Appearances == {<<0, 0>>, <<30, 0>>, <<90, 1>>, <<250, 3>>}

MetricShapes ==
    {[now_cost |-> c, total_points |-> t, minutes |-> m[1], starts |-> m[2]] :
        c \in {0, 45}, t \in {0, 10}, m \in Appearances}

InitMetrics ==
    /\ pc = "start"
    /\ teams = DefaultTeams
    /\ element_types = DefaultElementTypes
    /\ \E shapes \in SeqsUpTo(MetricShapes, MaxPlayers) \ {<<>>} :
           elements =
               [i \in DOMAIN shapes |->
                   [ElementRow(i, 1, 3, shapes[i].now_cost,
                               shapes[i].total_points, "2.5", "0.0", 1)
                       EXCEPT !.minutes = shapes[i].minutes,
                              !.starts = shapes[i].starts]]
    /\ raw_fixtures = DefaultFixtures
    /\ players = <<>>
    /\ fixtures = <<>>
    /\ team_stats = <<>>
    /\ timeline = NoTimeline
    /\ request = NoRequest
    /\ fpl_data = Constructed
    /\ teams_frame = <<>>
    /\ view = NoView

NextMetrics ==
    \/ LoadDashboard
    \/ LoadEnhanced
    \/ LoadStreamlit
    \/ LoadHtmlTable
    \/ LoadSimpleTable

SpecMetrics == InitMetrics /\ [][NextMetrics]_vars

\* C22: for every player of enhanced_app's get_players_df, minutes_per_game
\* is minutes / starts when starts >= 1 and minutes when starts = 0.
C22_MinutesPerStart ==
    pc = "enhanced_app" =>
    /\ Len(players) = Len(elements)
    /\ \A i \in DOMAIN players :
           players[i].minutes_per_game =
               IF elements[i].starts >= 1
               THEN Rat(elements[i].minutes, elements[i].starts)
               ELSE Int2Rat(elements[i].minutes)

\* a substitute with minutes and no start next to a player with three starts
C22_Witness ==
    /\ pc = "enhanced_app"
    /\ \E i, j \in DOMAIN players :
           /\ elements[i].starts = 0 /\ elements[i].minutes = 30
           /\ players[i].minutes_per_game = Int2Rat(30)
           /\ elements[j].starts = 3
           /\ players[j].minutes_per_game = Rat(250, 3)

\* the loaders C24 names, and the value score column of a row they return
ValueScoreFns ==
    {"enhanced_app", "streamlit_app", "html_table_app", "simple_table_app"}

ValueScoreOf(row) ==
    IF "value_score" \in DOMAIN row THEN row.value_score
    ELSE IF "value" \in DOMAIN row THEN row.value ELSE row.Value

\* C24 as stated: in the output of every loader that derives a value score,
\* a player with cost 0 has value score total_points, the value
\* enhanced_dashboard's load_fpl_data gives: a finite number, no division by
\* a zero price.
C24_ZeroPriceFloorEverywhere ==
    pc \in ValueScoreFns \cup {"enhanced_dashboard"} =>
    \A i \in DOMAIN players :
        players[i].now_cost = 0 =>
            /\ ValueScoreOf(players[i]).d # 0
            /\ ValueScoreOf(players[i]) = Int2Rat(players[i].total_points)

----------------------------------------------------------------------------
(* The granular difficulty of check_granular_data.py next to the one of    *)
(* enhanced_dashboard, over the rated team tables.                         *)

NextGranular ==
    \/ LoadDashboard
    \/ CheckGranularData

SpecGranular == InitDifficulty /\ [][NextGranular]_vars

\* C23 as stated: for every fixture and perspective, the custom difficulty
\* check_granular_data.py computes is the score get_custom_difficulty of
\* enhanced_dashboard gives for the same teams and venue.
C23_GranularVariantsAgree ==
    view.fn = "check_granular_data" =>
    \A k \in DOMAIN view.rows :
        /\ view.rows[k].home =
               get_custom_difficulty(teams, view.rows[k].team_h,
                                     view.rows[k].team_a, "home")
        /\ view.rows[k].away =
               get_custom_difficulty(teams, view.rows[k].team_h,
                                     view.rows[k].team_a, "away")

----------------------------------------------------------------------------
(* Timelines over a fixtures collection that is absent or empty (under     *)
(* Spec, whose feeds include the empty one).                               *)

\* C25 as stated: with no fixtures loaded, calculate_fixture_difficulty of
\* complete_streamlit_app and FPLData.calculate_fixture_difficulty return an
\* empty timeline for every team id and window, and do not raise.
C25_NoFixturesGivesEmptyTimeline ==
    /\ request.fn \in {"calculate_fixture_difficulty",
                       "FPLData.calculate_fixture_difficulty"}
    /\ fixtures = <<>>
    => timeline = Returned(<<>>)

----------------------------------------------------------------------------
(* The score against other ratings (under SpecDifficulty): the loaded      *)
(* score of a perspective next to the score over a team table that differs *)
(* in one rating of one team.                                              *)

\* the team table with one rating of team id set to v
WithRating(teams_df, id, rating, v) ==
    [k \in DOMAIN teams_df |->
        IF teams_df[k].id = id THEN [teams_df[k] EXCEPT ![rating] = v]
        ELSE teams_df[k]]

\* the two ratings of the opponent a perspective reads
OpponentFields(venue) ==
    IF venue = "home" THEN {"strength_attack_away", "strength_defence_away"}
    ELSE {"strength_attack_home", "strength_defence_home"}

\* every other rating of the two teams: the subject's own, the opponent's at
\* the other venue, and the overall ratings
StrengthFields ==
    {"strength_attack_home", "strength_attack_away", "strength_defence_home",
     "strength_defence_away", "strength_overall_home", "strength_overall_away"}

RatingValues == AttackValues \cup DefenceValues

Perspectives == {"home", "away"}
SubjectOf(f, venue) == IF venue = "home" THEN f.team_h ELSE f.team_a
OpponentOf(f, venue) == IF venue = "home" THEN f.team_a ELSE f.team_h
LoadedScore(f, venue) ==
    IF venue = "home" THEN f.home_difficulty_granular
    ELSE f.away_difficulty_granular

\* C26: raising one of the two opponent ratings a perspective reads, all
\* else fixed, never lowers the perspective's granular difficulty.
C26_MonotoneInOpponentRatings ==
    Loaded =>
    \A i \in DOMAIN fixtures, venue \in Perspectives :
        BothResolvable(fixtures[i]) =>
        \A rating \in OpponentFields(venue), v \in RatingValues :
            v >= TeamById(OpponentOf(fixtures[i], venue))[rating] =>
                RatLe(LoadedScore(fixtures[i], venue),
                      get_custom_difficulty(
                          WithRating(teams, OpponentOf(fixtures[i], venue),
                                     rating, v),
                          fixtures[i].team_h, fixtures[i].team_a, venue))

\* a home score that rises with the opponent's away attack rating (700 to
\* 1300) and an away score that rises into the clamp at 10
C26_Witness ==
    /\ Loaded
    /\ fixtures[1].team_h = 1 /\ fixtures[1].team_a = 2
    /\ teams[2].strength_attack_away = 700
    /\ teams[2].strength_defence_away = 1000
    /\ RatLt(fixtures[1].home_difficulty_granular,
             get_custom_difficulty(
                 WithRating(teams, 2, "strength_attack_away", 1300), 1, 2, "home"))
    /\ teams[1].strength_attack_home = 1300
    /\ teams[1].strength_defence_home = 1800
    /\ fixtures[1].away_difficulty_granular = Rat(75, 8)
    /\ get_custom_difficulty(
           WithRating(teams, 1, "strength_attack_home", 1800), 1, 2, "away")
           = Int2Rat(10)

----------------------------------------------------------------------------
(* The range of the rolling average (under Spec).                          *)

\* the positions of the window ending at i
WindowOf(i, N) == {j \in 1..i : j > i - N}

\* the range of the difficulty a timeline function works on: the granular
\* scale for single_team_analysis, the provider's 1..5 for the others
ScaleOf(fn) ==
    IF fn = "single_team_analysis" THEN <<Int2Rat(0), Int2Rat(10)>>
    ELSE <<Int2Rat(1), Int2Rat(5)>>

\* C28: at every position of a timeline the rolling average is at least the
\* smallest and at most the largest difficulty inside its window, hence
\* inside the scale of the difficulty (0..10 granular, 1..5 provider), and
\* with window 1 it is the fixture's own difficulty.
C28_RollingAverageWithinWindowRange ==
    (request.fn \in TimelineFns /\ ~timeline.raised) =>
    \A i \in DOMAIN timeline.rows :
        LET rows == timeline.rows
            avg == rows[i].rolling_difficulty
            W == WindowOf(i, request.window)
        IN  /\ \E j \in W : RatLe(rows[j].difficulty, avg)
            /\ \E j \in W : RatLe(avg, rows[j].difficulty)
            /\ RatLe(ScaleOf(request.fn)[1], avg)
            /\ RatLe(avg, ScaleOf(request.fn)[2])
            /\ request.window = 1 => avg = rows[i].difficulty

\* a granular timeline with window 2 whose average lies strictly between two
\* different difficulties of the window, after a position where the window
\* was not yet full
C28_Witness ==
    /\ request.fn = "single_team_analysis"
    /\ request.window = 2
    /\ ~timeline.raised
    /\ Len(timeline.rows) = 3
    /\ \E i \in 2..3 :
           LET a == timeline.rows[i - 1].difficulty
               b == timeline.rows[i].difficulty
               avg == timeline.rows[i].rolling_difficulty
           IN  /\ a # b
               /\ RatLt(PyMin(a, b), avg)
               /\ RatLt(avg, PyMax(a, b))

----------------------------------------------------------------------------
(* The per-position part of the team records (under SpecTeamStats).        *)

\* the players of the snapshot of this team whose element_type the position
\* table maps to the k-th of the four position names
MembersAt(team_id, k) ==
    {i \in Members(team_id) :
        \E q \in DOMAIN element_types :
            /\ element_types[q].id = elements[i].element_type
            /\ element_types[q].singular_name = PositionNames[k]}

\* C29: in every team record the four per-position counts sum to at most
\* total_players, and to total_players exactly when every player of the team
\* has one of the four positions; a position without players of the team has
\* count 0 and mean points 0.
C29_PositionCountsWithinTotal ==
    Loaded =>
    \A r \in DOMAIN team_stats :
        LET rec == team_stats[r]
            count == rec.position_count
            sum == count[1] + count[2] + count[3] + count[4]
            placed == UNION {MembersAt(rec.team_id, k) : k \in 1..4}
        IN  /\ sum <= rec.total_players
            /\ sum = rec.total_players <=> placed = Members(rec.team_id)
            /\ \A k \in 1..4 :
                   MembersAt(rec.team_id, k) = {} =>
                       /\ count[k] = 0
                       /\ rec.position_avg_points[k] = Int2Rat(0)

\* a team of three: a goalkeeper, a forward and a player whose position id
\* the table lacks: counts 1, 0, 0, 1 of 3 players
C29_Witness ==
    /\ Loaded
    /\ \E r \in DOMAIN team_stats :
           /\ team_stats[r].total_players = 3
           /\ team_stats[r].position_count = <<1, 0, 0, 1>>
           /\ team_stats[r].position_avg_points[2] = Int2Rat(0)

----------------------------------------------------------------------------
(* The fixtures table of multipage_app over team tables whose names do and *)
(* do not tell the teams apart.                                            *)

\* a team table in which both teams carry one name
SameNameTeams ==
    <<TeamRow(1, "United", 1100, 1300, 1200, 1000, 1150, 1180),
      TeamRow(2, "United", 1040, 1020, 1080, 1100, 1050, 1060)>>

InitNames ==
    /\ pc = "start"
    /\ teams \in {DefaultTeams, SameNameTeams}
    /\ elements = DefaultElements
    /\ element_types = DefaultElementTypes
    /\ \E shapes \in SeqsUpTo(FixtureShapes, MaxFixtures) :
           raw_fixtures = Stamp(shapes)
    /\ players = <<>>
    /\ fixtures = <<>>
    /\ team_stats = <<>>
    /\ timeline = NoTimeline
    /\ request = NoRequest
    /\ fpl_data = Constructed
    /\ teams_frame = <<>>
    /\ view = NoView

NextNames ==
    \/ LoadMultipage
    \/ \E team_id \in RequestTeams, window \in Windows :
           UpdateFixturesPage(team_id, window)

SpecNames == InitNames /\ [][NextNames]_vars

\* the venue and opponent calculate_fixture_difficulty of
\* complete_streamlit_app derives, by team id, for the rows of the table
SameAsById ==
    LET by_id == calculate_fixture_difficulty(fixtures, view.args.team_id,
                                              view.args.window).rows
    IN  /\ Len(view.rows) <= Len(by_id)
        /\ \A k \in DOMAIN view.rows :
               /\ view.rows[k].event = by_id[k].event
               /\ view.rows[k].venue = by_id[k].venue
               /\ view.rows[k].opponent = by_id[k].opponent

\* no other team of the table carries the selected team's name
NameTellsTeam(team_id) ==
    \A i, j \in DOMAIN teams :
        (teams[i].id = team_id /\ teams[j].name = teams[i].name) =>
            teams[j].id = team_id

====
